---- MODULE Spec2Model ----
(***************************************************************************)
(* Model of the attribute store (attribute-store/src/store.rs,             *)
(* attribute-store/src/inmemory.rs) and of the watch service               *)
(* (attribute-server/src/grpc.rs).                                         *)
(*                                                                         *)
(* Option<T> is modelled as a sequence of length at most one: <<>> is      *)
(* None and <<x>> is Some(x).  A HashMap<Symbol, AttributeValue> is a      *)
(* function whose domain is the set of keys.                               *)
(***************************************************************************)
EXTENDS Integers, Sequences, FiniteSets, TLC

VARIABLES
    entities,                 \* InMemoryAttributeStore.entities : Vec<Entity>
    attribute_types,          \* InMemoryAttributeStore.attribute_types
    entity_version_sequence,  \* the per-store version sequence
    channel,                  \* every event sent on the broadcast channel, in order
    pc,                       \* per subscriber: position inside watch_entities
    wreq,                     \* per subscriber: the WatchEntitiesRequest
    receiver,                 \* per subscriber: read position of its Receiver
    min_entity_version,       \* per subscriber: Option<EntityVersion>
    stream,                   \* per subscriber: events put on the response stream
    lagged,                   \* per subscriber: the receiver has overflowed
    arg,                      \* the value a boundary function is called with
    ret,                      \* what the boundary function returned
    adapter,                  \* the telemetry adapter's position in its setup
    tx,                       \* every RoutableFrame sent on Network.tx, in order
    conn,                     \* per TCP connection: its Network::process task
    client                    \* the local Client and the call it is inside

vars == <<entities, attribute_types, entity_version_sequence, channel,
          pc, wreq, receiver, min_entity_version, stream, lagged,
          arg, ret, adapter, tx, conn, client>>

storeVars == <<entities, attribute_types, entity_version_sequence, channel>>
watchVars == <<pc, wreq, receiver, min_entity_version, stream, lagged>>
boundaryVars == <<arg, ret>>
adapterVars == <<adapter>>
mavlinkVars == <<tx, conn, client>>
outerVars == <<boundaryVars, adapterVars, mavlinkVars>>

----------------------------------------------------------------------------
(* Bounds of the model.                                                    *)

\* mutations are explored until the version sequence reaches this value
MaxVersion == 3
\* longest attributes_to_update list of an UpdateEntityRequest
MaxItems == 2
\* number of events the broadcast channel retains for a slow receiver
ChannelCapacity == 2

----------------------------------------------------------------------------
(* store.rs: symbols, value types, attribute values                        *)

EntityIdSymbol   == "@id"
SymbolNameSymbol == "@symbolName"
ValueTypeSymbol  == "@valueType"

ValueTypes == {"Text", "EntityReference", "Bytes"}

\* impl From<ValueType> for EntityId
ValueTypeEntityId(value_type) ==
    CASE value_type = "Text"            -> 3
      [] value_type = "EntityReference" -> 4
      [] value_type = "Bytes"           -> 5

\* impl TryFrom<EntityId> for ValueType: <<>> is Err(InvalidValueType)
ValueTypeFromEntityId(id) ==
    CASE id = 3 -> <<"Text">>
      [] id = 4 -> <<"EntityReference">>
      [] id = 5 -> <<"Bytes">>
      [] OTHER  -> <<>>

\* impl From<ValueType> for Symbol
ValueTypeSymbolName(value_type) ==
    CASE value_type = "Text"            -> "@valueType/text"
      [] value_type = "EntityReference" -> "@valueType/entityRef"
      [] value_type = "Bytes"           -> "@valueType/bytes"

\* enum AttributeValue { String, EntityId, Bytes }
StringValue(s)   == [tag |-> "String",   str |-> s,  id |-> 0]
EntityIdValue(n) == [tag |-> "EntityId", str |-> "", id |-> n]
BytesValue(b)    == [tag |-> "Bytes",    str |-> b,  id |-> 0]

\* HashMap operations
EmptyMap == [k \in {} |-> 0]
MapGet(m, k) == IF k \in DOMAIN m THEN <<m[k]>> ELSE <<>>
MapInsert(m, k, v) == [x \in (DOMAIN m) \cup {k} |-> IF x = k THEN v ELSE m[x]]
MapRemove(m, k) == [x \in (DOMAIN m) \ {k} |-> m[x]]

\* enum BootstrapSymbol, in the order of bootstrap_entities()
BootstrapSymbols ==
    << [symbol |-> EntityIdSymbol,   id |-> 0, value_type |-> <<"EntityReference">>],
       [symbol |-> SymbolNameSymbol, id |-> 1, value_type |-> <<"Text">>],
       [symbol |-> ValueTypeSymbol,  id |-> 2, value_type |-> <<"EntityReference">>],
       [symbol |-> ValueTypeSymbolName("Text"),
        id |-> ValueTypeEntityId("Text"), value_type |-> <<>>],
       [symbol |-> ValueTypeSymbolName("EntityReference"),
        id |-> ValueTypeEntityId("EntityReference"), value_type |-> <<>>],
       [symbol |-> ValueTypeSymbolName("Bytes"),
        id |-> ValueTypeEntityId("Bytes"), value_type |-> <<>>] >>

\* impl From<BootstrapSymbol> for Entity
\* (BootstrapEntityStampedOne: the bootstrap entities take version 1)
BootstrapEntityStampedOne(b) ==
    LET named == MapInsert(EmptyMap, SymbolNameSymbol, StringValue(b.symbol))
    IN [entity_id      |-> b.id,
        entity_version |-> 1,
        attributes     |-> IF b.value_type # <<>>
                             THEN MapInsert(named, ValueTypeSymbol,
                                     EntityIdValue(ValueTypeEntityId(b.value_type[1])))
                             ELSE named]
BootstrapEntity(b) ==
    LET named == MapInsert(EmptyMap, SymbolNameSymbol, StringValue(b.symbol))
    IN [entity_id      |-> b.id,
        entity_version |-> 0,
        attributes     |-> IF b.value_type # <<>>
                             THEN MapInsert(named, ValueTypeSymbol,
                                     EntityIdValue(ValueTypeEntityId(b.value_type[1])))
                             ELSE named]

\* InMemoryAttributeStore::bootstrap_entities
bootstrap_entities == [i \in 1..Len(BootstrapSymbols) |-> BootstrapEntity(BootstrapSymbols[i])]

\* InMemoryAttributeStore::new: the registry is scanned from the entities
\* which carry both @symbolName (a String) and @valueType (a value-type id)
IsAttributeTypeEntity(e) ==
    /\ ValueTypeSymbol \in DOMAIN e.attributes
    /\ SymbolNameSymbol \in DOMAIN e.attributes
    /\ e.attributes[SymbolNameSymbol].tag = "String"
    /\ e.attributes[ValueTypeSymbol].tag = "EntityId"
    /\ ValueTypeFromEntityId(e.attributes[ValueTypeSymbol].id) # <<>>

\* (new_attribute_types_all_named: every named entity induces an entry,
\*  with Text where it has no value type)
new_attribute_types_all_named(ents) ==
    LET idx == {i \in 1..Len(ents) : SymbolNameSymbol \in DOMAIN ents[i].attributes}
        names == {ents[i].attributes[SymbolNameSymbol].str : i \in idx}
    IN [s \in names |->
          LET i == CHOOSE j \in idx : ents[j].attributes[SymbolNameSymbol].str = s
          IN IF IsAttributeTypeEntity(ents[i])
               THEN ValueTypeFromEntityId(ents[i].attributes[ValueTypeSymbol].id)[1]
               ELSE "Text"]
new_attribute_types(ents) ==
    LET idx == {i \in 1..Len(ents) : IsAttributeTypeEntity(ents[i])}
        names == {ents[i].attributes[SymbolNameSymbol].str : i \in idx}
    IN [s \in names |->
          LET i == CHOOSE j \in idx :
                     /\ ents[j].attributes[SymbolNameSymbol].str = s
                     /\ \A k \in idx :
                          ents[k].attributes[SymbolNameSymbol].str = s => k <= j
          IN ValueTypeFromEntityId(ents[i].attributes[ValueTypeSymbol].id)[1]]

----------------------------------------------------------------------------
(* store.rs: the query algebra                                             *)

MatchAll  == [kind |-> "MatchAll",  clauses |-> <<>>, attribute_types |-> <<>>]
MatchNone == [kind |-> "MatchNone", clauses |-> <<>>, attribute_types |-> <<>>]
AndNode(cs) == [kind |-> "And", clauses |-> cs, attribute_types |-> <<>>]
OrNode(cs)  == [kind |-> "Or",  clauses |-> cs, attribute_types |-> <<>>]
HasAttributeTypes(syms) ==
    [kind |-> "HasAttributeTypes", clauses |-> <<>>, attribute_types |-> syms]

\* EntityQueryNode::matches
\* (matches_or_as_all: an Or node asks every clause to match)
RECURSIVE matches_or_as_all(_, _)
matches_or_as_all(node, entity) ==
    CASE node.kind = "MatchAll"  -> TRUE
      [] node.kind = "MatchNone" -> FALSE
      [] node.kind \in {"And", "Or"} ->
           \A i \in 1..Len(node.clauses) : matches_or_as_all(node.clauses[i], entity)
      [] node.kind = "HasAttributeTypes" ->
           \A i \in 1..Len(node.attribute_types) :
              node.attribute_types[i] \in DOMAIN entity.attributes
RECURSIVE matches(_, _)
matches(node, entity) ==
    CASE node.kind = "MatchAll"  -> TRUE
      [] node.kind = "MatchNone" -> FALSE
      [] node.kind = "And" ->
           \A i \in 1..Len(node.clauses) : matches(node.clauses[i], entity)
      [] node.kind = "Or" ->
           \E i \in 1..Len(node.clauses) : matches(node.clauses[i], entity)
      [] node.kind = "HasAttributeTypes" ->
           \A i \in 1..Len(node.attribute_types) :
              node.attribute_types[i] \in DOMAIN entity.attributes

----------------------------------------------------------------------------
(* inmemory.rs: the store engine.  Every operation is a function of the    *)
(* store value st = [entities, attribute_types, version] and its request;  *)
(* it yields [ok, err, st, entity, events] where st is the store after the *)
(* call, entity the returned entity and events what the call sends on the  *)
(* broadcast channel.                                                      *)

EntityIdLocator(n) == [kind |-> "EntityId", id |-> n, symbol |-> ""]
SymbolLocator(s)   == [kind |-> "Symbol",   id |-> 0, symbol |-> s]

\* struct AttributeToUpdate { symbol, value: Option<AttributeValue> }
Item(symbol, value) == [symbol |-> symbol, value |-> value]

Failure(st, err) ==
    [ok |-> FALSE, err |-> err, st |-> st, entity |-> <<>>, events |-> <<>>]
Success(st, entity, events) ==
    [ok |-> TRUE, err |-> "", st |-> st, entity |-> <<entity>>, events |-> events]

\* the version sequence: the value stamped by the next state-changing call
\* (NextVersionReused: the sequence is read but not advanced)
NextVersionReused(version) == version
NextVersion(version) == version + 1

\* an event as sent on the broadcast channel (struct WatchEntitiesEvent)
Event(version, before, after) ==
    [entity_version |-> version, before |-> before, after |-> after]

\* position (1-based) of the first entity whose @symbolName equals
\* String(symbol), 0 when there is none (iter().find / iter_mut().find)
\* (FindBySymbolNameLast: the scan keeps the last entity of that name)
FindBySymbolNameLast(ents, symbol) ==
    LET hits == {i \in 1..Len(ents) :
                    /\ SymbolNameSymbol \in DOMAIN ents[i].attributes
                    /\ ents[i].attributes[SymbolNameSymbol] = StringValue(symbol)}
    IN IF hits = {} THEN 0 ELSE CHOOSE i \in hits : \A j \in hits : i >= j
FindBySymbolName(ents, symbol) ==
    LET hits == {i \in 1..Len(ents) :
                    /\ SymbolNameSymbol \in DOMAIN ents[i].attributes
                    /\ ents[i].attributes[SymbolNameSymbol] = StringValue(symbol)}
    IN IF hits = {} THEN 0 ELSE CHOOSE i \in hits : \A j \in hits : i <= j

\* resolution of an EntityLocator: [err, pos]; pos = 0 is Option::None
ResolveLocator(ents, locator) ==
    IF locator.kind = "EntityId"
      THEN IF locator.id < 0
             THEN [err |-> "EntityNotFound", pos |-> 0]
             ELSE [err |-> "",
                   pos |-> IF locator.id < Len(ents) THEN locator.id + 1 ELSE 0]
      ELSE [err |-> "", pos |-> FindBySymbolName(ents, locator.symbol)]

\* the match of validate_update_entity_request / of
\* attribute_value_matches_attribute_type
ValueMatchesType(value, expected) ==
    \/ value = <<>>
    \/ value # <<>> /\ value[1].tag = "String"   /\ expected = "Text"
    \/ value # <<>> /\ value[1].tag = "EntityId" /\ expected = "EntityReference"
    \/ value # <<>> /\ value[1].tag = "Bytes"    /\ expected = "Bytes"

\* (validate_without_immutable_check: the @valueType test is left out)
RECURSIVE validate_without_immutable_check(_, _)
validate_without_immutable_check(items, types) ==
    IF items = <<>> THEN ""
    ELSE LET a == Head(items) IN
         IF a.symbol \notin DOMAIN types THEN "UnregisteredAttributeTypes"
         ELSE IF ~ValueMatchesType(a.value, types[a.symbol])
                THEN "AttributeTypeConflictError"
         ELSE validate_without_immutable_check(Tail(items), types)

\* validate_update_entity_request: "" is Ok(()), otherwise the first error
\* (validate_first_item_only: the loop stops after the first item)
validate_first_item_only(items, types) ==
    IF items = <<>> THEN ""
    ELSE LET a == Head(items) IN
         IF a.symbol = ValueTypeSymbol THEN "ImmutableAttributeTypeError"
         ELSE IF a.symbol \notin DOMAIN types THEN "UnregisteredAttributeTypes"
         ELSE IF ~ValueMatchesType(a.value, types[a.symbol])
                THEN "AttributeTypeConflictError"
         ELSE ""
RECURSIVE validate_update_entity_request(_, _)
validate_update_entity_request(items, types) ==
    IF items = <<>> THEN ""
    ELSE LET a == Head(items) IN
         IF a.symbol = ValueTypeSymbol THEN "ImmutableAttributeTypeError"
         ELSE IF a.symbol \notin DOMAIN types THEN "UnregisteredAttributeTypes"
         ELSE IF ~ValueMatchesType(a.value, types[a.symbol])
                THEN "AttributeTypeConflictError"
         ELSE validate_update_entity_request(Tail(items), types)

\* (CollectAttributesRemovingNulls: a null item removes the key collected
\*  so far; ApplyUpdatesIgnoringNulls: a null item is skipped)
RECURSIVE CollectAttributesRemovingNulls(_, _)
CollectAttributesRemovingNulls(attrs, items) ==
    IF items = <<>> THEN attrs
    ELSE LET a == Head(items) IN
         CollectAttributesRemovingNulls(
             IF a.value = <<>> THEN MapRemove(attrs, a.symbol)
             ELSE MapInsert(attrs, a.symbol, a.value[1]),
             Tail(items))
RECURSIVE ApplyUpdatesIgnoringNulls(_, _)
ApplyUpdatesIgnoringNulls(attrs, items) ==
    IF items = <<>> THEN attrs
    ELSE LET a == Head(items) IN
         ApplyUpdatesIgnoringNulls(
             IF a.value = <<>> THEN attrs
             ELSE MapInsert(attrs, a.symbol, a.value[1]),
             Tail(items))

\* the attribute map of a created entity: the non-null items, collected
\* into a HashMap in list order (a later item of the same key wins)
RECURSIVE CollectAttributes(_, _)
CollectAttributes(attrs, items) ==
    IF items = <<>> THEN attrs
    ELSE LET a == Head(items) IN
         CollectAttributes(IF a.value = <<>> THEN attrs
                           ELSE MapInsert(attrs, a.symbol, a.value[1]),
                           Tail(items))

\* the loop over attributes_to_update on an existing entity
RECURSIVE ApplyUpdates(_, _)
ApplyUpdates(attrs, items) ==
    IF items = <<>> THEN attrs
    ELSE LET a == Head(items) IN
         ApplyUpdates(IF a.value = <<>> THEN MapRemove(attrs, a.symbol)
                      ELSE MapInsert(attrs, a.symbol, a.value[1]),
                      Tail(items))

\* insert_new_entity_with_attributes, stamped with the given version
\* (insert_new_entity_not_pushed: the entity is returned but never stored;
\*  insert_new_entity_id_after_push: the id is the length after the push)
insert_new_entity_not_pushed(ents, attributes, version) ==
    [entities |-> ents,
     entity   |-> [entity_id |-> Len(ents), entity_version |-> version,
                   attributes |-> attributes]]
insert_new_entity_id_after_push(ents, attributes, version) ==
    LET entity == [entity_id      |-> Len(ents) + 1,
                   entity_version |-> version,
                   attributes     |-> attributes]
    IN [entities |-> Append(ents, entity), entity |-> entity]
insert_new_entity_with_attributes(ents, attributes, version) ==
    LET database_id == Len(ents)
        entity == [entity_id      |-> database_id,
                   entity_version |-> version,
                   attributes     |-> attributes]
    IN [entities |-> Append(ents, entity), entity |-> entity]

\* AttributeStore::create_attribute_type
\* (create_attribute_type_unchecked: the test for an entity of that name
\*  is left out)
create_attribute_type_unchecked(st, attribute_type) ==
    LET version == NextVersion(st.version)
        attributes ==
          MapInsert(MapInsert(EmptyMap, SymbolNameSymbol,
                              StringValue(attribute_type.symbol)),
                    ValueTypeSymbol,
                    EntityIdValue(ValueTypeEntityId(attribute_type.value_type)))
        ins == insert_new_entity_with_attributes(st.entities, attributes, version)
    IN Success([entities |-> ins.entities,
                attribute_types |->
                   MapInsert(st.attribute_types, attribute_type.symbol,
                             attribute_type.value_type),
                version |-> version],
               ins.entity,
               <<Event(version, <<>>, <<ins.entity>>)>>)
create_attribute_type(st, attribute_type) ==
    IF FindBySymbolName(st.entities, attribute_type.symbol) # 0
      THEN Failure(st, "AttributeTypeAlreadyExists")
      ELSE
        LET version == NextVersion(st.version)
            attributes ==
              MapInsert(MapInsert(EmptyMap, SymbolNameSymbol,
                                  StringValue(attribute_type.symbol)),
                        ValueTypeSymbol,
                        EntityIdValue(ValueTypeEntityId(attribute_type.value_type)))
            ins == insert_new_entity_with_attributes(st.entities, attributes, version)
        IN Success([entities |-> ins.entities,
                    attribute_types |->
                       MapInsert(st.attribute_types, attribute_type.symbol,
                                 attribute_type.value_type),
                    version |-> version],
                   ins.entity,
                   <<Event(version, <<>>, <<ins.entity>>)>>)

\* AttributeStore::get_entity
get_entity(st, locator) ==
    LET r == ResolveLocator(st.entities, locator) IN
    IF r.err # "" \/ r.pos = 0
      THEN Failure(st, "EntityNotFound")
      ELSE Success(st, st.entities[r.pos], <<>>)

\* the scan of query_entities: the entities the predicate keeps, in order
\* (QueryScanUnfiltered: the predicate is not applied)
QueryScanUnfiltered(ents, root) == ents
QueryScan(ents, root) == SelectSeq(ents, LAMBDA e : matches(root, e))

\* AttributeStore::query_entities: EntityQueryResult {entities, entity_version}
query_entities(st, root) ==
    [entities |-> QueryScan(st.entities, root), entity_version |-> st.version]

\* Entity::to_entity_row: one Option<AttributeValue> per requested symbol
\* (to_entity_row_stored_id: the @id column is read from the attribute map
\*  like every other column)
to_entity_row_stored_id(entity, symbols) ==
    [i \in 1..Len(symbols) |-> MapGet(entity.attributes, symbols[i])]
to_entity_row(entity, symbols) ==
    [i \in 1..Len(symbols) |->
        IF symbols[i] = EntityIdSymbol
          THEN <<EntityIdValue(entity.entity_id)>>
          ELSE MapGet(entity.attributes, symbols[i])]

\* AttributeStore::query_entity_rows: EntityRowQueryResult {entity_rows,
\* entity_version}, or the error for unregistered projection symbols
query_entity_rows(st, root, symbols) ==
    IF \E i \in 1..Len(symbols) : symbols[i] \notin DOMAIN st.attribute_types
      THEN [ok |-> FALSE, err |-> "UnregisteredAttributeTypes",
            entity_rows |-> <<>>, entity_version |-> 0]
      ELSE LET scan == QueryScan(st.entities, root) IN
           [ok |-> TRUE, err |-> "",
            entity_rows |-> [i \in 1..Len(scan) |-> to_entity_row(scan[i], symbols)],
            entity_version |-> st.version]

\* AttributeStore::update_entity
update_entity(st, req) ==
    LET verr == validate_update_entity_request(req.attributes_to_update,
                                               st.attribute_types)
        r == ResolveLocator(st.entities, req.entity_locator)
    IN
    IF verr # "" THEN Failure(st, verr)
    ELSE IF r.err # "" THEN Failure(st, r.err)
    ELSE IF r.pos = 0
      THEN
        LET version == NextVersion(st.version)
            ins == insert_new_entity_with_attributes(
                      st.entities,
                      CollectAttributes(EmptyMap, req.attributes_to_update),
                      version)
        IN Success([st EXCEPT !.entities = ins.entities, !.version = version],
                   ins.entity,
                   <<Event(version, <<>>, <<ins.entity>>)>>)
      ELSE
        LET before == st.entities[r.pos]
            attributes == ApplyUpdates(before.attributes, req.attributes_to_update)
            version == NextVersion(st.version)
            after == [before EXCEPT !.attributes = attributes,
                                    !.entity_version = version]
        IN IF attributes = before.attributes
             THEN Success(st, before, <<>>)
             ELSE Success([st EXCEPT !.entities[r.pos] = after, !.version = version],
                          after,
                          <<Event(version, <<before>>, <<after>>)>>)

----------------------------------------------------------------------------
(* Requests the clients issue.                                             *)

SeqsUpTo(S, n) == UNION {[1..k -> S] : k \in 0..n}

CreateSymbols == {"color", SymbolNameSymbol}

\* struct CreateAttributeTypeRequest / AttributeType
CreateAttributeTypeRequests == [symbol : CreateSymbols, value_type : ValueTypes]

Items ==
    { Item(SymbolNameSymbol, <<StringValue("w1")>>),
      Item(SymbolNameSymbol, <<>>),
      Item("color", <<StringValue("red")>>),
      Item("color", <<BytesValue("b1")>>),
      Item("color", <<>>),
      Item(ValueTypeSymbol, <<EntityIdValue(3)>>) }

Locators ==
    { EntityIdLocator(1), EntityIdLocator(6),
      SymbolLocator("w1"), SymbolLocator("color") }

\* struct UpdateEntityRequest
UpdateEntityRequests ==
    [entity_locator : Locators, attributes_to_update : SeqsUpTo(Items, MaxItems)]

----------------------------------------------------------------------------
(* The store behind its Mutex (store.rs, ThreadSafeAttributeStore for      *)
(* Mutex<T>): each call holds the lock from its first to its last          *)
(* statement, so each call is one step.                                    *)

Store == [entities |-> entities, attribute_types |-> attribute_types,
          version |-> entity_version_sequence]

\* the store takes the value a call leaves and the call's events are sent
\* (CommitWhenDrained: sending waits until no receiver is more than the
\*  channel's capacity behind)
CommitWhenDrained(res) ==
    /\ \A s \in DOMAIN pc :
          pc[s] \in {"subscribed", "queried", "streaming"}
             => Len(channel) - receiver[s] < ChannelCapacity
    /\ entities' = res.st.entities
    /\ attribute_types' = res.st.attribute_types
    /\ entity_version_sequence' = res.st.version
    /\ channel' = channel \o res.events
Commit(res) ==
    /\ entities' = res.st.entities
    /\ attribute_types' = res.st.attribute_types
    /\ entity_version_sequence' = res.st.version
    /\ channel' = channel \o res.events

Subscribers == {"s1"}

Connections == {"c1", "c2"}

\* the adapter has not been started, no TCP connection is accepted and the
\* local client is not inside a call
OutsideIdle ==
    /\ adapter = [pc |-> "idle", idx |-> 0, run |-> 0, status |-> "",
                  at |-> "", fdset |-> <<>>]
    /\ tx = <<>>
    /\ conn = [c \in Connections |->
                 [state |-> "closed", sub |-> 0, rx |-> 0, written |-> <<>>,
                  why |-> ""]]
    /\ client = [pc |-> "idle", call |-> "", sub |-> 0, rx |-> 0, idx |-> 0,
                 count |-> 0, items |-> <<>>, result |-> ""]

\* nothing outside the store is running: no boundary call is in progress either
Idle ==
    /\ arg = <<>>
    /\ ret = <<>>
    /\ OutsideIdle

\* the store after InMemoryAttributeStore::new, with no watch call made
ServerInit ==
    /\ entities = bootstrap_entities
    /\ attribute_types = new_attribute_types(bootstrap_entities)
    /\ entity_version_sequence = 0
    /\ channel = <<>>
    /\ pc = [s \in Subscribers |-> "idle"]
    /\ wreq = [s \in Subscribers |->
                 [rows |-> FALSE, query |-> MatchNone, attribute_types |-> <<>>,
                  send_initial_events |-> FALSE]]
    /\ receiver = [s \in Subscribers |-> 0]
    /\ min_entity_version = [s \in Subscribers |-> <<>>]
    /\ stream = [s \in Subscribers |-> <<>>]
    /\ lagged = [s \in Subscribers |-> FALSE]

Init ==
    /\ Idle
    /\ ServerInit

CreateAttributeType(req) ==
    /\ entity_version_sequence < MaxVersion
    /\ Commit(create_attribute_type(Store, req))
    /\ UNCHANGED <<watchVars, outerVars>>

UpdateEntity(req) ==
    /\ entity_version_sequence < MaxVersion
    /\ Commit(update_entity(Store, req))
    /\ UNCHANGED <<watchVars, outerVars>>

Next ==
    \/ \E req \in CreateAttributeTypeRequests : CreateAttributeType(req)
    \/ \E req \in UpdateEntityRequests : UpdateEntity(req)

Spec == Init /\ [][Next]_vars

----------------------------------------------------------------------------
(* Upserts at the edges of update_entity: locators that name no entity,    *)
(* items on @valueType and on @id, values written, overwritten and         *)
(* removed.                                                                *)

UpsertItems ==
    { Item(SymbolNameSymbol, <<StringValue("w1")>>),
      Item(SymbolNameSymbol, <<>>),
      Item(ValueTypeSymbol, <<EntityIdValue(3)>>),
      Item(ValueTypeSymbol, <<>>),
      Item(EntityIdSymbol, <<EntityIdValue(1)>>) }

UpsertLocators ==
    { EntityIdLocator(-1), EntityIdLocator(1), EntityIdLocator(6),
      SymbolLocator("w1") }

UpsertRequests ==
    [entity_locator : UpsertLocators,
     attributes_to_update : SeqsUpTo(UpsertItems, MaxItems)]

UpsertNext == \E req \in UpsertRequests : UpdateEntity(req)

UpsertSpec == Init /\ [][UpsertNext]_vars

----------------------------------------------------------------------------
(* grpc.rs: the watch service.  The response stream is kept as the         *)
(* sequence of events handed to the last map(into_proto).  An element is   *)
(* a WatchEntitiesEvent ("Event"), a WatchEntityRowsEvent ("RowEvent"),    *)
(* the Added row event of the initial row query, which is built without a  *)
(* version ("AddedRow"), or the Bookmark.                                  *)

StreamEvent(event) ==
    [kind |-> "Event", entity_version |-> <<event.entity_version>>,
     before |-> event.before, after |-> event.after]
StreamRowEvent(event) ==
    [kind |-> "RowEvent", entity_version |-> <<event.entity_version>>,
     before |-> event.before, after |-> event.after]
AddedRow(row) ==
    [kind |-> "AddedRow", entity_version |-> <<>>, before |-> <<>>, after |-> <<row>>]
Bookmark(version) ==
    [kind |-> "Bookmark", entity_version |-> <<version>>,
     before |-> <<>>, after |-> <<>>]

\* Option::filter(|entity| entity_query_node.matches(entity))
FilterMatching(opt, query) ==
    IF opt # <<>> /\ matches(query, opt[1]) THEN opt ELSE <<>>

\* filter_event: <<>> is None
filter_event(event, query, min_version) ==
    IF min_version # <<>> /\ event.entity_version < min_version[1]
      THEN <<>>
      ELSE << Event(event.entity_version,
                    FilterMatching(event.before, query),
                    FilterMatching(event.after, query)) >>

\* to_watch_entity_row_event
to_watch_entity_row_event(event, symbols) ==
    Event(event.entity_version,
          IF event.before = <<>> THEN <<>>
          ELSE <<to_entity_row(event.before[1], symbols)>>,
          IF event.after = <<>> THEN <<>>
          ELSE <<to_entity_row(event.after[1], symbols)>>)

\* the ongoing_events pipeline of watch_entities applied to one received
\* event: the events (none or one) it puts on the stream
\* (ongoing_events_unsuppressed: without the `before != after` filter)
ongoing_events_unsuppressed(event, query, min_version) ==
    LET f == filter_event(event, query, min_version) IN
    IF f = <<>> THEN <<>> ELSE <<StreamEvent(f[1])>>
ongoing_events(event, query, min_version) ==
    LET f == filter_event(event, query, min_version) IN
    IF f = <<>> THEN <<>>
    ELSE IF f[1].before = f[1].after THEN <<>>
    ELSE <<StreamEvent(f[1])>>

\* the ongoing_events pipeline of watch_entity_rows
\* (ongoing_row_events_entities_compared: `before != after` is tested on
\*  the entities, before they are projected)
ongoing_row_events_entities_compared(event, query, symbols, min_version) ==
    LET f == filter_event(event, query, min_version) IN
    IF f = <<>> THEN <<>>
    ELSE IF f[1].before = f[1].after THEN <<>>
    ELSE <<StreamRowEvent(to_watch_entity_row_event(f[1], symbols))>>
ongoing_row_events(event, query, symbols, min_version) ==
    LET f == filter_event(event, query, min_version) IN
    IF f = <<>> THEN <<>>
    ELSE LET r == to_watch_entity_row_event(f[1], symbols) IN
         IF r.before = r.after THEN <<>> ELSE <<StreamRowEvent(r)>>

\* initial_events of watch_entities: one Added per entity of the query
\* result, then the Bookmark
\* (initial_events_bookmark_first: the Bookmark is chained in front)
initial_events_bookmark_first(result) ==
    <<Bookmark(result.entity_version)>> \o
    [i \in 1..Len(result.entities) |->
        StreamEvent(Event(result.entity_version, <<>>, <<result.entities[i]>>))]
initial_events(result) ==
    [i \in 1..Len(result.entities) |->
        StreamEvent(Event(result.entity_version, <<>>, <<result.entities[i]>>))]
    \o <<Bookmark(result.entity_version)>>

\* initial_events of watch_entity_rows
initial_row_events(result) ==
    [i \in 1..Len(result.entity_rows) |-> AddedRow(result.entity_rows[i])]
    \o <<Bookmark(result.entity_version)>>

\* Sender::subscribe: a new receiver sees the events sent from now on
watch_entities_receiver == Len(channel)

\* the receiver the BroadcastStream of ongoing_events reads from: the one
\* taken before the initial query
\* (StreamReceiverLate: a receiver subscribed when the stream is built)
StreamReceiverLate(s) == Len(channel)
StreamReceiver(s) == receiver[s]

\* the queries subscribers watch with: every entity, the entities that
\* have a color, and the entities that have a name and a value type (the
\* attribute types), written with And, Or and MatchNone
Queries ==
    { MatchAll,
      HasAttributeTypes(<<"color">>),
      AndNode(<<HasAttributeTypes(<<SymbolNameSymbol>>),
                OrNode(<<HasAttributeTypes(<<ValueTypeSymbol>>), MatchNone>>)>>) }

\* struct WatchEntitiesRequest (rows = FALSE) and struct
\* WatchEntityRowsRequest (rows = TRUE)
WatchEntitiesRequests ==
    [rows : {FALSE}, query : Queries, attribute_types : {<<>>},
     send_initial_events : BOOLEAN]
WatchEntityRowsRequests ==
    [rows : {TRUE}, query : Queries, attribute_types : {<<EntityIdSymbol, "color">>},
     send_initial_events : BOOLEAN]

\* watch_entities / watch_entity_rows up to
\* `let receiver = self.store.watch_entities_receiver()`
WatchSubscribe(s, req) ==
    /\ pc[s] = "idle"
    /\ wreq' = [wreq EXCEPT ![s] = req]
    /\ receiver' = [receiver EXCEPT ![s] = watch_entities_receiver]
    /\ pc' = [pc EXCEPT ![s] = "subscribed"]
    /\ UNCHANGED <<storeVars, outerVars, min_entity_version, stream, lagged>>

\* watch_entities: `let (initial_events, min_entity_version) = ...`
WatchEntitiesInitial(s) ==
    /\ pc[s] = "subscribed"
    /\ ~wreq[s].rows
    /\ IF wreq[s].send_initial_events
         THEN LET result == query_entities(Store, wreq[s].query) IN
              /\ stream' = [stream EXCEPT ![s] = initial_events(result)]
              /\ min_entity_version' =
                    [min_entity_version EXCEPT ![s] = <<result.entity_version>>]
         ELSE /\ stream' = [stream EXCEPT ![s] = <<>>]
              /\ min_entity_version' = [min_entity_version EXCEPT ![s] = <<>>]
    /\ pc' = [pc EXCEPT ![s] = "queried"]
    /\ UNCHANGED <<storeVars, outerVars, wreq, receiver, lagged>>

\* watch_entity_rows: `let (initial_events, min_entity_version) = ...`; a
\* failed row query ends the call with its error and no stream
WatchEntityRowsInitial(s) ==
    /\ pc[s] = "subscribed"
    /\ wreq[s].rows
    /\ IF wreq[s].send_initial_events
         THEN LET result == query_entity_rows(Store, wreq[s].query,
                                              wreq[s].attribute_types) IN
              IF result.ok
                THEN /\ stream' = [stream EXCEPT ![s] = initial_row_events(result)]
                     /\ min_entity_version' =
                          [min_entity_version EXCEPT ![s] = <<result.entity_version>>]
                     /\ pc' = [pc EXCEPT ![s] = "queried"]
                ELSE /\ pc' = [pc EXCEPT ![s] = "failed"]
                     /\ UNCHANGED <<stream, min_entity_version>>
         ELSE /\ stream' = [stream EXCEPT ![s] = <<>>]
              /\ min_entity_version' = [min_entity_version EXCEPT ![s] = <<>>]
              /\ pc' = [pc EXCEPT ![s] = "queried"]
    /\ UNCHANGED <<storeVars, outerVars, wreq, receiver, lagged>>

\* watch_entities / watch_entity_rows: the response stream is built from
\* the receiver and returned
WatchRespond(s) ==
    /\ pc[s] = "queried"
    /\ receiver' = [receiver EXCEPT ![s] = StreamReceiver(s)]
    /\ pc' = [pc EXCEPT ![s] = "streaming"]
    /\ UNCHANGED <<storeVars, outerVars, wreq, min_entity_version, stream, lagged>>

\* one poll of the response stream past the initial events: the receiver
\* yields its next event, or Err(Lagged) when the channel no longer
\* retains it (filter_map(|v| v.ok()) drops the error and the receiver
\* resumes at the oldest retained event)
\* (WatchPollSameEvent: the receiver yields an event without moving past it)
WatchPollSameEvent(s) ==
    /\ pc[s] = "streaming"
    /\ receiver[s] < Len(channel)
    /\ Len(stream[s]) < 2 * MaxVersion + Len(bootstrap_entities) + 2
    /\ IF Len(channel) - receiver[s] > ChannelCapacity
         THEN /\ receiver' = [receiver EXCEPT ![s] = Len(channel) - ChannelCapacity]
              /\ lagged' = [lagged EXCEPT ![s] = TRUE]
              /\ UNCHANGED stream
         ELSE /\ stream' = [stream EXCEPT ![s] =
                    stream[s] \o
                    IF wreq[s].rows
                      THEN ongoing_row_events(channel[receiver[s] + 1], wreq[s].query,
                                              wreq[s].attribute_types,
                                              min_entity_version[s])
                      ELSE ongoing_events(channel[receiver[s] + 1], wreq[s].query,
                                          min_entity_version[s])]
              /\ UNCHANGED <<receiver, lagged>>
    /\ UNCHANGED <<storeVars, outerVars, wreq, min_entity_version, pc>>
WatchPoll(s) ==
    /\ pc[s] = "streaming"
    /\ receiver[s] < Len(channel)
    /\ IF Len(channel) - receiver[s] > ChannelCapacity
         THEN /\ receiver' = [receiver EXCEPT ![s] = Len(channel) - ChannelCapacity]
              /\ lagged' = [lagged EXCEPT ![s] = TRUE]
              /\ UNCHANGED stream
         ELSE /\ receiver' = [receiver EXCEPT ![s] = receiver[s] + 1]
              /\ stream' = [stream EXCEPT ![s] =
                    stream[s] \o
                    IF wreq[s].rows
                      THEN ongoing_row_events(channel[receiver[s] + 1], wreq[s].query,
                                              wreq[s].attribute_types,
                                              min_entity_version[s])
                      ELSE ongoing_events(channel[receiver[s] + 1], wreq[s].query,
                                          min_entity_version[s])]
              /\ UNCHANGED lagged
    /\ UNCHANGED <<storeVars, outerVars, wreq, min_entity_version, pc>>

\* IntoProto<pb::WatchEntitiesEvent> for WatchEntitiesEvent: the oneof
\* `event` of the message sent for a stream event; <<>> is None
into_proto(x) ==
    IF x.before = <<>> /\ x.after # <<>>
      THEN <<[event |-> "Added", entity |-> x.after[1]]>>
    ELSE IF x.before # <<>> /\ x.after # <<>>
      THEN <<[event |-> "Modified", entity |-> x.after[1]]>>
    ELSE IF x.before # <<>> /\ x.after = <<>>
      THEN <<[event |-> "Removed", entity |-> x.before[1]]>>
    ELSE <<>>

\* the mutations issued while subscribers watch
WatchCreateAttributeTypeRequests == {[symbol |-> "color", value_type |-> "Text"]}

WatchItems ==
    { Item(SymbolNameSymbol, <<StringValue("w1")>>),
      Item("color", <<StringValue("red")>>),
      Item("color", <<>>) }

WatchUpdateEntityRequests ==
    [entity_locator : {SymbolLocator("w1")},
     attributes_to_update : SeqsUpTo(WatchItems, MaxItems)]

WatchNext ==
    \/ \E req \in WatchCreateAttributeTypeRequests : CreateAttributeType(req)
    \/ \E req \in WatchUpdateEntityRequests : UpdateEntity(req)
    \/ \E s \in Subscribers, req \in WatchEntitiesRequests : WatchSubscribe(s, req)
    \/ \E s \in Subscribers, req \in WatchEntityRowsRequests : WatchSubscribe(s, req)
    \/ \E s \in Subscribers : WatchEntitiesInitial(s)
    \/ \E s \in Subscribers : WatchEntityRowsInitial(s)
    \/ \E s \in Subscribers : WatchRespond(s)
    \/ \E s \in Subscribers : WatchPoll(s)

WatchSpec == Init /\ [][WatchNext]_vars

----------------------------------------------------------------------------
(* Row watches with a projection that leaves attributes out: one           *)
(* subscriber calls watch_entity_rows with the projection [@id] or         *)
(* [@id, color] while entities are created and their color changes.        *)

RowWatchRequests ==
    [rows : {TRUE}, query : {MatchAll, HasAttributeTypes(<<"color">>)},
     attribute_types : {<<EntityIdSymbol>>, <<EntityIdSymbol, "color">>},
     send_initial_events : BOOLEAN]

RowWatchNext ==
    \/ \E req \in WatchCreateAttributeTypeRequests : CreateAttributeType(req)
    \/ \E req \in WatchUpdateEntityRequests : UpdateEntity(req)
    \/ \E s \in Subscribers, req \in RowWatchRequests : WatchSubscribe(s, req)
    \/ \E s \in Subscribers : WatchEntityRowsInitial(s)
    \/ \E s \in Subscribers : WatchRespond(s)
    \/ \E s \in Subscribers : WatchPoll(s)

RowWatchSpec == Init /\ [][RowWatchNext]_vars

----------------------------------------------------------------------------
(* Cancellation.  The future of watch_entities, and later the response     *)
(* stream it returns, own the receiver; dropping either at a suspension    *)
(* point (the await of the initial query, or a poll of the stream) drops   *)
(* the receiver and nothing else.  Two subscribers watch, so that one can  *)
(* be cancelled while the other goes on.                                   *)

CancelSubscribers == {"s1", "s2"}

CancelInit ==
    /\ Idle
    /\ entities = bootstrap_entities
    /\ attribute_types = new_attribute_types(bootstrap_entities)
    /\ entity_version_sequence = 0
    /\ channel = <<>>
    /\ pc = [s \in CancelSubscribers |-> "idle"]
    /\ wreq = [s \in CancelSubscribers |->
                 [rows |-> FALSE, query |-> MatchNone, attribute_types |-> <<>>,
                  send_initial_events |-> FALSE]]
    /\ receiver = [s \in CancelSubscribers |-> 0]
    /\ min_entity_version = [s \in CancelSubscribers |-> <<>>]
    /\ stream = [s \in CancelSubscribers |-> <<>>]
    /\ lagged = [s \in CancelSubscribers |-> FALSE]

\* (WatchCancelAll: dropping one receiver closes the channel for all)
WatchCancelAll(s) ==
    /\ pc[s] \in {"subscribed", "queried", "streaming"}
    /\ pc' = [t \in DOMAIN pc |-> IF pc[t] = "idle" THEN "idle" ELSE "cancelled"]
    /\ UNCHANGED <<storeVars, outerVars, wreq, receiver, min_entity_version, stream, lagged>>

\* the call or its response stream is dropped: before the initial query
\* ("subscribed"), between the initial events and the tail ("queried"), or
\* in the tail ("streaming")
WatchCancel(s) ==
    /\ pc[s] \in {"subscribed", "queried", "streaming"}
    /\ pc' = [pc EXCEPT ![s] = "cancelled"]
    /\ UNCHANGED <<storeVars, outerVars, wreq, receiver, min_entity_version, stream, lagged>>

CancelWatchRequests ==
    { [rows |-> FALSE, query |-> MatchAll, attribute_types |-> <<>>,
       send_initial_events |-> TRUE],
      [rows |-> FALSE, query |-> HasAttributeTypes(<<"color">>),
       attribute_types |-> <<>>, send_initial_events |-> FALSE] }

CancelUpdateEntityRequests ==
    {req \in WatchUpdateEntityRequests :
        /\ Len(req.attributes_to_update) = 1
        /\ req.attributes_to_update[1].value # <<>>}

CancelNext ==
    \/ \E req \in WatchCreateAttributeTypeRequests : CreateAttributeType(req)
    \/ \E req \in CancelUpdateEntityRequests : UpdateEntity(req)
    \/ \E s \in CancelSubscribers, req \in CancelWatchRequests : WatchSubscribe(s, req)
    \/ \E s \in CancelSubscribers : WatchEntitiesInitial(s)
    \/ \E s \in CancelSubscribers : WatchRespond(s)
    \/ \E s \in CancelSubscribers : WatchPoll(s)
    \/ \E s \in CancelSubscribers : WatchCancel(s)

CancelSpec == CancelInit /\ [][CancelNext]_vars

----------------------------------------------------------------------------
(* Definitions used to state the properties.                               *)

\* the entity list obtained by replaying, over the bootstrap entities, the
\* events of log whose version is at most V
ApplyEvent(ents, e) ==
    IF e.after = <<>> THEN ents
    ELSE LET a == e.after[1] IN
         IF a.entity_id < Len(ents)
           THEN [ents EXCEPT ![a.entity_id + 1] = a]
           ELSE Append(ents, a)

RECURSIVE Replay(_, _, _)
Replay(ents, log, V) ==
    IF log = <<>> THEN ents
    ELSE Replay(IF Head(log).entity_version <= V THEN ApplyEvent(ents, Head(log))
                ELSE ents,
                Tail(log), V)

\* the entities matching the request's query in the store as of version V
SnapshotAt(req, V) ==
    SelectSeq(Replay(bootstrap_entities, channel, V), LAMBDA e : matches(req.query, e))

\* the columns a row subscriber sees of an optional entity
Columns(opt, req) ==
    IF opt = <<>> THEN <<>>
    ELSE << [i \in 1..Len(req.attribute_types) |->
               IF req.attribute_types[i] = EntityIdSymbol
                 THEN <<EntityIdValue(opt[1].entity_id)>>
                 ELSE IF req.attribute_types[i] \in DOMAIN opt[1].attributes
                        THEN <<opt[1].attributes[req.attribute_types[i]]>>
                        ELSE <<>>] >>

\* what a subscriber with this request is owed for a channel event: the
\* event with each side kept only if it matches the query (and, for a row
\* subscriber, reduced to its columns); nothing if both sides then agree
Derived(e, req) ==
    LET b == IF e.before # <<>> /\ matches(req.query, e.before[1]) THEN e.before ELSE <<>>
        a == IF e.after # <<>> /\ matches(req.query, e.after[1]) THEN e.after ELSE <<>>
    IN IF req.rows
         THEN IF Columns(b, req) = Columns(a, req) THEN <<>>
              ELSE <<StreamRowEvent(Event(e.entity_version,
                                          Columns(b, req), Columns(a, req)))>>
         ELSE IF b = a THEN <<>>
              ELSE <<StreamEvent(Event(e.entity_version, b, a))>>

RECURSIVE DerivedAbove(_, _, _)
DerivedAbove(log, req, V) ==
    IF log = <<>> THEN <<>>
    ELSE (IF Head(log).entity_version > V THEN Derived(Head(log), req) ELSE <<>>)
         \o DerivedAbove(Tail(log), req, V)

Started(s) == pc[s] \in {"queried", "streaming"}

IsBookmark(x) == x.kind = "Bookmark"
IsInitialAdded(x) == x.kind \in {"Event", "AddedRow"} /\ x.before = <<>> /\ x.after # <<>>

\* number of initial events on the stream (the Bookmark included)
InitialLen(s) ==
    IF wreq[s].send_initial_events /\ Started(s)
      THEN LET marks == {i \in 1..Len(stream[s]) : IsBookmark(stream[s][i])}
           IN IF marks = {} THEN 0 ELSE CHOOSE i \in marks : \A j \in marks : i <= j
      ELSE 0

\* the live tail: what follows the initial events
TailEvents(s) == SubSeq(stream[s], InitialLen(s) + 1, Len(stream[s]))

\* a stream element that stems from an event of the channel
IsLive(x) ==
    /\ x.kind \in {"Event", "RowEvent"}
    /\ \E j \in 1..Len(channel) : x.entity_version = <<channel[j].entity_version>>

----------------------------------------------------------------------------
(* C1: no gap. A subscriber that asked for initial events and has not      *)
(* overflowed the channel has, among the live events of its stream, every  *)
(* event of the channel it has read whose version is above the Bookmark    *)
(* version V0 and which changes what its query sees, in order; so none of  *)
(* the channel events above V0 lies before the point it reads from.        *)
C1_GapFree ==
    \A s \in Subscribers :
        (pc[s] = "streaming" /\ wreq[s].send_initial_events /\ ~lagged[s]) =>
            LET V0 == min_entity_version[s][1] IN
            SelectSeq(TailEvents(s), LAMBDA x : x.entity_version[1] > V0)
              = DerivedAbove(SubSeq(channel, 1, receiver[s]), wreq[s], V0)

C1_Witness ==
    \E s \in Subscribers :
        /\ pc[s] = "streaming" /\ wreq[s].send_initial_events /\ ~lagged[s]
        /\ ~wreq[s].rows
        /\ min_entity_version[s][1] >= 1
        /\ \E i \in 1..Len(TailEvents(s)) :
              TailEvents(s)[i].entity_version[1] > min_entity_version[s][1]

(* C2: no duplicate. With initial events, no live event of the stream has  *)
(* a version at or below the Bookmark version V0 (all such events are      *)
(* dropped); without initial events, filter_event drops no event.          *)
C2_NoDuplicate ==
    \A s \in Subscribers :
        Started(s) =>
            IF wreq[s].send_initial_events
              THEN \A i \in 1..Len(TailEvents(s)) :
                      TailEvents(s)[i].entity_version[1] > min_entity_version[s][1]
              ELSE \A j \in 1..Len(channel) :
                      filter_event(channel[j], wreq[s].query, min_entity_version[s]) # <<>>

(* C3: stream order.  As claimed: before the initial step the stream is    *)
(* empty; with initial events it is one Added event per entity matching    *)
(* the query in the store as of V0, each carrying V0, then Bookmark(V0),   *)
(* then live events only and no further Bookmark; without initial events   *)
(* it holds live events only.                                              *)
OrderedStream(s) ==
    IF ~Started(s) THEN stream[s] = <<>>
    ELSE IF wreq[s].send_initial_events
      THEN LET V0 == min_entity_version[s][1]
               n == Len(SnapshotAt(wreq[s], V0))
           IN /\ Len(stream[s]) >= n + 1
              /\ \A i \in 1..n : IsInitialAdded(stream[s][i])
              /\ stream[s][n + 1] = Bookmark(V0)
              /\ \A i \in (n + 2)..Len(stream[s]) : IsLive(stream[s][i])
      ELSE /\ min_entity_version[s] = <<>>
           /\ \A i \in 1..Len(stream[s]) : IsLive(stream[s][i])

ItemAgrees(attrs, a) ==
    IF a.value = <<>> THEN a.symbol \notin DOMAIN attrs
    ELSE a.symbol \in DOMAIN attrs /\ attrs[a.symbol] = a.value[1]

C6_IdempotentUpdate ==
    \A req \in UpdateEntityRequests :
        LET r1 == update_entity(Store, req)
            r2 == update_entity(r1.st, req)
            loc == ResolveLocator(entities, req.entity_locator)
        IN /\ r1.ok => /\ r2.ok
                       /\ r2.entity = r1.entity
                       /\ r2.events = <<>>
                       /\ r2.st = r1.st
                       /\ Len(r1.events) + Len(r2.events) <= 1
           /\ ( /\ r1.ok
                /\ loc.pos # 0
                /\ \A i \in 1..Len(req.attributes_to_update) :
                      ItemAgrees(entities[loc.pos].attributes,
                                 req.attributes_to_update[i]) )
                => r1.events = <<>> /\ r1.st.version = entity_version_sequence

(* C7: snapshot consistency. In every reachable state the result of        *)
(* query_entities, for each query, is the entities matching the query in   *)
(* the store rebuilt from exactly the events of version at most the        *)
(* returned watermark, and no event on the channel is above the watermark. *)
SnapshotQueries ==
    { MatchAll, MatchNone,
      HasAttributeTypes(<<"color">>),
      HasAttributeTypes(<<SymbolNameSymbol, ValueTypeSymbol>>),
      AndNode(<<HasAttributeTypes(<<SymbolNameSymbol>>), HasAttributeTypes(<<"color">>)>>),
      OrNode(<<HasAttributeTypes(<<ValueTypeSymbol>>), HasAttributeTypes(<<"color">>)>>) }

C8_ContiguousIds ==
    /\ [](\A i \in 1..Len(entities) : entities[i].entity_id = i - 1)
    /\ [][ /\ Len(entities') \in {Len(entities), Len(entities) + 1}
           /\ \A i \in 1..Len(entities) :
                 entities'[i].entity_id = entities[i].entity_id
           /\ Len(entities') = Len(entities) + 1 =>
                 entities'[Len(entities')].entity_id = Len(entities) ]_vars

C8_Witness ==
    /\ Len(entities) >= 8
    /\ \E i \in 1..Len(channel) : channel[i].before # <<>>

(* C9: invariant I4. Every attribute stored on an entity has a key the     *)
(* registry knows and a value whose tag is the one the registry maps the   *)
(* key to.                                                                 *)
C9_AttributeTagsMatch ==
    \A i \in 1..Len(entities) :
        \A k \in DOMAIN entities[i].attributes :
            /\ k \in DOMAIN attribute_types
            /\ ValueMatchesType(<<entities[i].attributes[k]>>, attribute_types[k])

(* C10: schema consistency P7. For every attribute type that               *)
(* create_attribute_type has created (an Added event whose entity carries  *)
(* @valueType), the registry still maps its symbol to its value type, and  *)
(* every update_entity writing that symbol with a value of another tag     *)
(* fails.                                                                  *)
CreatedAttributeTypes ==
    { [symbol |-> channel[i].after[1].attributes[SymbolNameSymbol].str,
       value_type |->
          ValueTypeFromEntityId(channel[i].after[1].attributes[ValueTypeSymbol].id)[1]] :
      i \in { j \in 1..Len(channel) :
                /\ channel[j].before = <<>>
                /\ ValueTypeSymbol \in DOMAIN channel[j].after[1].attributes } }

WritesOtherTag(req, at) ==
    \E i \in 1..Len(req.attributes_to_update) :
        LET a == req.attributes_to_update[i] IN
        /\ a.symbol = at.symbol
        /\ a.value # <<>>
        /\ ~ValueMatchesType(a.value, at.value_type)

C10_SchemaConsistency ==
    \A at \in CreatedAttributeTypes :
        /\ at.symbol \in DOMAIN attribute_types
        /\ attribute_types[at.symbol] = at.value_type
        /\ \A req \in UpdateEntityRequests :
              WritesOtherTag(req, at) => ~update_entity(Store, req).ok

----------------------------------------------------------------------------
(* C11: invariant I2, registry and store in lock-step. Every non-bootstrap *)
(* entity carrying @valueType also carries @symbolName, and the registry   *)
(* maps that name to the value type the entity's @valueType refers to;     *)
(* conversely every registry entry is induced by such an entity.           *)
InducesEntry(e, s, value_type) ==
    /\ ValueTypeSymbol \in DOMAIN e.attributes
    /\ SymbolNameSymbol \in DOMAIN e.attributes
    /\ e.attributes[SymbolNameSymbol] = StringValue(s)
    /\ ValueTypeFromEntityId(e.attributes[ValueTypeSymbol].id) = <<value_type>>

C11_RegistryLockStep ==
    /\ \A i \in 1..Len(entities) :
          ( /\ entities[i].entity_id >= Len(BootstrapSymbols)
            /\ ValueTypeSymbol \in DOMAIN entities[i].attributes )
          => \E s \in DOMAIN attribute_types :
                InducesEntry(entities[i], s, attribute_types[s])
    /\ \A s \in DOMAIN attribute_types :
          \E i \in 1..Len(entities) :
              InducesEntry(entities[i], s, attribute_types[s])

(* C12: invariant I3. An update_entity request with an item on @valueType  *)
(* (with a value or null, at any position) fails validation and changes    *)
(* nothing; and no step changes or removes the @valueType attribute of an  *)
(* entity that exists.                                                     *)
ValidationErrors ==
    {"ImmutableAttributeTypeError", "UnregisteredAttributeTypes",
     "AttributeTypeConflictError"}

TargetsValueType(req) ==
    \E i \in 1..Len(req.attributes_to_update) :
        req.attributes_to_update[i].symbol = ValueTypeSymbol

C12_ValueTypeImmutable ==
    /\ [](\A req \in UpsertRequests :
            TargetsValueType(req) =>
                LET r == update_entity(Store, req) IN
                /\ ~r.ok
                /\ r.err \in ValidationErrors
                /\ r.st = Store
                /\ r.events = <<>>)
    /\ [][\A i \in 1..Len(entities) :
            /\ i <= Len(entities')
            /\ MapGet(entities'[i].attributes, ValueTypeSymbol)
                 = MapGet(entities[i].attributes, ValueTypeSymbol)]_vars

\* an attribute-type entity has been modified and keeps its @valueType,
\* and requests on @valueType that name it are at hand
C12_Witness ==
    /\ entities[2].entity_version > 0
    /\ entities[2].attributes # BootstrapEntity(BootstrapSymbols[2]).attributes
    /\ ValueTypeSymbol \in DOMAIN entities[2].attributes
    /\ \E req \in UpsertRequests :
          /\ TargetsValueType(req)
          /\ req.entity_locator = EntityIdLocator(1)
          /\ req.attributes_to_update[1].symbol # ValueTypeSymbol
          /\ ~update_entity(Store, req).ok

(* C13: invariant I6. No entity's stored attribute map has the key @id.    *)
C13_IdNeverStored ==
    \A i \in 1..Len(entities) : EntityIdSymbol \notin DOMAIN entities[i].attributes

C15_EntityIdNotFound ==
    \A n \in {-1, Len(entities), Len(entities) + 1} :
        /\ LET g == get_entity(Store, EntityIdLocator(n)) IN
           ~g.ok /\ g.err = "EntityNotFound"
        /\ \A items \in SeqsUpTo(UpsertItems, MaxItems) :
              LET req == [entity_locator |-> EntityIdLocator(n),
                          attributes_to_update |-> items]
                  r == update_entity(Store, req)
              IN validate_update_entity_request(items, attribute_types) = ""
                 => /\ ~r.ok
                    /\ r.err = "EntityNotFound"
                    /\ r.st = Store
                    /\ r.events = <<>>

(* C16: a non-idempotent upsert is rejected.  update_entity with locator   *)
(* Symbol(s), when no entity is named s and the request has no item        *)
(* {@symbolName, Text(s)}, fails with UpdateNotIdempotent, leaves the      *)
(* store as it is and sends no event.                                      *)
WritesSymbolName(req, s) ==
    \E i \in 1..Len(req.attributes_to_update) :
        req.attributes_to_update[i] = Item(SymbolNameSymbol, <<StringValue(s)>>)

C16_NonIdempotentRejected ==
    \A req \in UpsertRequests :
        ( /\ req.entity_locator.kind = "Symbol"
          /\ FindBySymbolName(entities, req.entity_locator.symbol) = 0
          /\ ~WritesSymbolName(req, req.entity_locator.symbol)
          /\ validate_update_entity_request(req.attributes_to_update,
                                            attribute_types) = "" )
        => LET r == update_entity(Store, req) IN
           /\ ~r.ok
           /\ r.err = "UpdateNotIdempotent"
           /\ r.st = Store
           /\ r.events = <<>>

(* C17: deduplication on write.  While no two entities have the same       *)
(* @symbolName, an update_entity call with a Symbol locator, and the same  *)
(* call made again, leave it so; and when the first call created an        *)
(* entity the second call creates none.                                    *)
UniqueSymbolNames(ents) ==
    \A i, j \in 1..Len(ents) :
        ( /\ i # j
          /\ SymbolNameSymbol \in DOMAIN ents[i].attributes
          /\ SymbolNameSymbol \in DOMAIN ents[j].attributes )
        => ents[i].attributes[SymbolNameSymbol] # ents[j].attributes[SymbolNameSymbol]

C17_DeduplicatedOnWrite ==
    \A req \in UpdateEntityRequests :
        (req.entity_locator.kind = "Symbol" /\ UniqueSymbolNames(entities)) =>
            LET r1 == update_entity(Store, req)
                r2 == update_entity(r1.st, req)
            IN /\ UniqueSymbolNames(r1.st.entities)
               /\ UniqueSymbolNames(r2.st.entities)
               /\ Len(r1.st.entities) > Len(entities)
                    => Len(r2.st.entities) = Len(r1.st.entities)

(* C18: creating upsert.  When a request passes validation and its locator *)
(* finds no entity (the lookup itself not failing), update_entity appends  *)
(* exactly one entity whose attribute map is exactly the items with a      *)
(* value (a null item gives no key), sends exactly one Added event (no     *)
(* before, after = the new entity) at a freshly allocated version, and     *)
(* returns the new entity.                                                 *)
NonNullIndices(items) == {i \in 1..Len(items) : items[i].value # <<>>}

\* index of the last item with a value on key k (the one a HashMap keeps)
LastNonNullOn(items, k) ==
    CHOOSE i \in NonNullIndices(items) :
        /\ items[i].symbol = k
        /\ \A j \in NonNullIndices(items) : items[j].symbol = k => j <= i

ItemIndicesOn(items, k) == {i \in 1..Len(items) : items[i].symbol = k}

LastItemOn(items, k) ==
    CHOOSE i \in ItemIndicesOn(items, k) : \A j \in ItemIndicesOn(items, k) : j <= i

\* the optional value of key k after the items are applied to attrs
ExpectedValue(attrs, items, k) ==
    IF ItemIndicesOn(items, k) = {}
      THEN MapGet(attrs, k)
      ELSE items[LastItemOn(items, k)].value

C20_CreateAttributeType ==
    \A req \in CreateAttributeTypeRequests :
        LET r == create_attribute_type(Store, req) IN
        IF req.symbol \notin DOMAIN attribute_types
          THEN /\ r.ok
               /\ r.st.entities = Append(entities, r.entity[1])
               /\ r.entity[1].entity_id = Len(entities)
               /\ DOMAIN r.entity[1].attributes = {SymbolNameSymbol, ValueTypeSymbol}
               /\ r.entity[1].attributes[SymbolNameSymbol] = StringValue(req.symbol)
               /\ r.entity[1].attributes[ValueTypeSymbol].tag = "EntityId"
               /\ r.entity[1].attributes[ValueTypeSymbol].id \in {3, 4, 5}
               /\ ValueTypeFromEntityId(r.entity[1].attributes[ValueTypeSymbol].id)
                    = <<req.value_type>>
               /\ r.st.attribute_types
                    = MapInsert(attribute_types, req.symbol, req.value_type)
               /\ r.events = <<Event(r.st.version, <<>>, r.entity)>>
               /\ r.entity[1].entity_version = r.st.version
               /\ r.st.version > entity_version_sequence
          ELSE /\ ~r.ok
               /\ r.st = Store
               /\ r.events = <<>>

(* C21: racing create_attribute_type.  The calls run one at a time under   *)
(* the store's lock, in any order.  When two or three calls for the same   *)
(* symbol, which so far is the name of no entity, follow each other, the    *)
(* first succeeds and each later one fails with                            *)
(* AttributeTypeAlreadyExists and changes nothing; afterwards exactly one  *)
(* entity carries that @symbolName together with a @valueType, and the     *)
(* registry holds the value type of the call that succeeded.               *)
NamedAttributeTypeEntities(ents, s) ==
    {i \in 1..Len(ents) :
        /\ SymbolNameSymbol \in DOMAIN ents[i].attributes
        /\ ents[i].attributes[SymbolNameSymbol] = StringValue(s)
        /\ ValueTypeSymbol \in DOMAIN ents[i].attributes}

C21_RacingCreate ==
    \A a, b, c \in CreateAttributeTypeRequests :
        ( /\ a.symbol = b.symbol
          /\ b.symbol = c.symbol
          /\ FindBySymbolName(entities, a.symbol) = 0 )
        => LET r1 == create_attribute_type(Store, a)
               r2 == create_attribute_type(r1.st, b)
               r3 == create_attribute_type(r2.st, c)
           IN /\ r1.ok
              /\ ~r2.ok /\ r2.err = "AttributeTypeAlreadyExists"
              /\ ~r3.ok /\ r3.err = "AttributeTypeAlreadyExists"
              /\ r2.st = r1.st /\ r2.events = <<>>
              /\ r3.st = r1.st /\ r3.events = <<>>
              /\ Cardinality(NamedAttributeTypeEntities(r3.st.entities, a.symbol)) = 1
              /\ r3.st.attribute_types[a.symbol] = a.value_type
              /\ InducesEntry(r1.entity[1], a.symbol, a.value_type)

\* a create_attribute_type for color has succeeded and the other calls
\* for color now fail
C21_Witness ==
    /\ "color" \in DOMAIN attribute_types
    /\ Cardinality(NamedAttributeTypeEntities(entities, "color")) = 1
    /\ \E j \in 1..Len(channel) :
          /\ channel[j].before = <<>>
          /\ InducesEntry(channel[j].after[1], "color", attribute_types["color"])
    /\ \A req \in CreateAttributeTypeRequests :
          req.symbol = "color" =>
              create_attribute_type(Store, req).err = "AttributeTypeAlreadyExists"

(* C22: per-subscriber filtering.  Every live event on an entity           *)
(* subscriber's stream is an event of the channel with each side kept      *)
(* exactly when it matches the subscriber's query and absent otherwise,    *)
(* and its two sides differ; a channel event whose two sides come out      *)
(* equal, in particular an update of an entity that matches the query      *)
(* neither before nor after, puts nothing on the stream.                   *)
KeptSide(opt, query) ==
    IF opt = <<>> THEN <<>>
    ELSE IF matches(query, opt[1]) THEN opt ELSE <<>>

MatchesNeither(e, query) ==
    /\ e.before # <<>> /\ ~matches(query, e.before[1])
    /\ e.after # <<>> /\ ~matches(query, e.after[1])

C22_PerSubscriberFiltering ==
    /\ \A s \in Subscribers :
          (Started(s) /\ ~wreq[s].rows) =>
             /\ \A i \in 1..Len(TailEvents(s)) :
                   LET x == TailEvents(s)[i] IN
                   /\ x.kind = "Event"
                   /\ x.before # x.after
                   /\ \E j \in 1..Len(channel) :
                         /\ x.entity_version = <<channel[j].entity_version>>
                         /\ x.before = KeptSide(channel[j].before, wreq[s].query)
                         /\ x.after = KeptSide(channel[j].after, wreq[s].query)
             /\ \A j \in 1..Len(channel) :
                   KeptSide(channel[j].before, wreq[s].query)
                     = KeptSide(channel[j].after, wreq[s].query)
                   => \A i \in 1..Len(TailEvents(s)) :
                         TailEvents(s)[i].entity_version
                            # <<channel[j].entity_version>>
    /\ \A j \in 1..Len(channel), q \in Queries :
          LET out == ongoing_events(channel[j], q, <<>>) IN
          /\ MatchesNeither(channel[j], q) => out = <<>>
          /\ KeptSide(channel[j].before, q) = KeptSide(channel[j].after, q)
                => out = <<>>
          /\ KeptSide(channel[j].before, q) # KeptSide(channel[j].after, q)
                => out = <<StreamEvent(Event(channel[j].entity_version,
                                             KeptSide(channel[j].before, q),
                                             KeptSide(channel[j].after, q)))>>

\* a subscriber that has received an event and then read, without
\* receiving anything for it, an update of an entity that matches its
\* query neither before nor after
C22_Witness ==
    \E s \in Subscribers :
        /\ pc[s] = "streaming" /\ ~wreq[s].rows /\ ~lagged[s]
        /\ receiver[s] = Len(channel)
        /\ \E i \in 1..Len(TailEvents(s)), j \in 1..Len(channel) :
              /\ MatchesNeither(channel[j], wreq[s].query)
              /\ TailEvents(s)[i].entity_version[1] < channel[j].entity_version
              /\ \A k \in 1..Len(TailEvents(s)) :
                    TailEvents(s)[k].entity_version # <<channel[j].entity_version>>

(* C23: membership transitions of the entity watch stream.  A channel      *)
(* event after which the entity newly matches the query is sent as Added   *)
(* with the after state, one after which it no longer matches as Removed   *)
(* with the before state, and one whose entity matches before and after    *)
(* as Modified with the after state (C23_TransitionKinds); and the entity  *)
(* of a Modified sent after the Bookmark has a version greater than the    *)
(* Bookmark's V0.                                                          *)
Matching(opt, query) == opt # <<>> /\ matches(query, opt[1])

C23_TransitionKinds ==
    \A s \in Subscribers :
        (Started(s) /\ ~wreq[s].rows) =>
            \A i \in 1..Len(TailEvents(s)) :
                LET x == TailEvents(s)[i]
                    e == CHOOSE c \in {channel[j] : j \in 1..Len(channel)} :
                            x.entity_version = <<c.entity_version>>
                    q == wreq[s].query
                    p == into_proto(x)
                IN /\ p # <<>>
                   /\ (~Matching(e.before, q) /\ Matching(e.after, q))
                         => p[1] = [event |-> "Added", entity |-> e.after[1]]
                   /\ (Matching(e.before, q) /\ ~Matching(e.after, q))
                         => p[1] = [event |-> "Removed", entity |-> e.before[1]]
                   /\ (Matching(e.before, q) /\ Matching(e.after, q))
                         => p[1] = [event |-> "Modified", entity |-> e.after[1]]

C23_MembershipTransitions ==
    /\ C23_TransitionKinds
    /\ \A s \in Subscribers :
          (Started(s) /\ ~wreq[s].rows /\ min_entity_version[s] # <<>>) =>
              \A i \in 1..Len(TailEvents(s)) :
                  LET p == into_proto(TailEvents(s)[i]) IN
                  (p # <<>> /\ p[1].event = "Modified")
                     => p[1].entity.entity_version > min_entity_version[s][1]

(* C24: fan-out order.  The live events of every subscriber, entity or     *)
(* row, are derived from distinct events of the channel and stand in the   *)
(* channel's order, so their versions are strictly increasing; a           *)
(* subscriber that overflowed the channel has lost events but has none     *)
(* twice and none out of order, and its stream goes on: whenever the       *)
(* channel holds an event it has not read, its next poll is possible.      *)
ChannelIndex(version) ==
    CHOOSE j \in 1..Len(channel) : <<channel[j].entity_version>> = version

C24_FanOutOrder ==
    \A s \in Subscribers :
        Started(s) =>
            /\ receiver[s] <= Len(channel)
            /\ \A i \in 1..Len(TailEvents(s)) :
                  LET x == TailEvents(s)[i] IN
                  /\ \E j \in 1..receiver[s] :
                        /\ <<channel[j].entity_version>> = x.entity_version
                        /\ <<x>> = Derived(channel[j], wreq[s])
                  /\ \A k \in 1..Len(TailEvents(s)) :
                        i < k =>
                           /\ x.entity_version[1] < TailEvents(s)[k].entity_version[1]
                           /\ ChannelIndex(x.entity_version)
                                < ChannelIndex(TailEvents(s)[k].entity_version)
            /\ (pc[s] = "streaming" /\ receiver[s] < Len(channel))
                  => ENABLED WatchPoll(s)

\* a subscriber that overflowed the channel, lost an event it was owed and
\* has since received two later events
C24_Witness ==
    \E s \in Subscribers :
        /\ pc[s] = "streaming" /\ lagged[s]
        /\ Len(TailEvents(s)) >= 2
        /\ \E j \in 1..Len(channel) :
              /\ Derived(channel[j], wreq[s]) # <<>>
              /\ \A i \in 1..Len(TailEvents(s)) :
                    /\ TailEvents(s)[i].entity_version # <<channel[j].entity_version>>
                    /\ TailEvents(s)[i].entity_version[1] > channel[j].entity_version

(* C25: writers are never stalled by watchers.  Whatever the subscribers   *)
(* are doing (none has subscribed, or one holds a receiver and has stopped *)
(* reading, even past the channel's capacity), every create_attribute_type *)
(* call and every update_entity call (taken here with at most one item)    *)
(* can run to its end; and a call that changes the entities sends exactly  *)
(* one event, which carries the changed entity, and touches no subscriber. *)
C25_CallsComplete ==
    entity_version_sequence < MaxVersion =>
        /\ \A req \in WatchCreateAttributeTypeRequests : ENABLED CreateAttributeType(req)
        /\ \A req \in WatchUpdateEntityRequests :
              Len(req.attributes_to_update) <= 1 => ENABLED UpdateEntity(req)

C25_Publishes ==
    entities' # entities =>
        /\ Len(channel') = Len(channel) + 1
        /\ SubSeq(channel', 1, Len(channel)) = channel
        /\ LET e == channel'[Len(channel')] IN
           /\ e.entity_version = entity_version_sequence'
           /\ e.after # <<>>
           /\ entities'[e.after[1].entity_id + 1] = e.after[1]
        /\ UNCHANGED watchVars

OthersOf(s) == CancelSubscribers \ {s}

C26_CancelStep ==
    \A s \in CancelSubscribers :
        /\ (pc[s] # "cancelled" /\ pc'[s] = "cancelled") =>
              /\ UNCHANGED <<storeVars, wreq, receiver, min_entity_version,
                             stream, lagged>>
              /\ \A t \in OthersOf(s) : pc'[t] = pc[t]
        /\ pc[s] = "cancelled" =>
              /\ pc'[s] = "cancelled"
              /\ stream'[s] = stream[s] /\ receiver'[s] = receiver[s]

C26_OthersUnaffected ==
    \A s \in CancelSubscribers :
        pc[s] = "cancelled" =>
            /\ entity_version_sequence < MaxVersion =>
                  /\ ENABLED CreateAttributeType([symbol |-> "color",
                                                  value_type |-> "Text"])
                  /\ ENABLED UpdateEntity(
                        [entity_locator |-> SymbolLocator("w1"),
                         attributes_to_update |->
                            <<Item(SymbolNameSymbol, <<StringValue("w1")>>)>>])
            /\ \A t \in OthersOf(s) :
                  Started(t) =>
                     /\ \A i \in 1..Len(TailEvents(t)) :
                           \E j \in 1..receiver[t] :
                              /\ <<channel[j].entity_version>>
                                    = TailEvents(t)[i].entity_version
                              /\ <<TailEvents(t)[i]>> = Derived(channel[j], wreq[t])
                     /\ (pc[t] = "streaming" /\ ~lagged[t]) =>
                           \A j \in 1..receiver[t] :
                              ( /\ Derived(channel[j], wreq[t]) # <<>>
                                /\ \/ /\ wreq[t].send_initial_events
                                      /\ channel[j].entity_version
                                            > min_entity_version[t][1]
                                   \/ \E i \in 1..Len(TailEvents(t)) :
                                         TailEvents(t)[i].entity_version[1]
                                            < channel[j].entity_version )
                              => \E i \in 1..Len(TailEvents(t)) :
                                    <<TailEvents(t)[i]>> = Derived(channel[j], wreq[t])
                     /\ (pc[t] = "streaming" /\ receiver[t] < Len(channel))
                           => ENABLED WatchPoll(t)

C26_Cancellation == []C26_OthersUnaffected /\ [][C26_CancelStep]_vars

\* one subscriber was cancelled in its tail, after its first live event;
\* the other has since received a later event that the cancelled one never
\* read
C26_Witness ==
    \E s \in CancelSubscribers, t \in CancelSubscribers :
        /\ s # t
        /\ pc[s] = "cancelled" /\ ~wreq[s].send_initial_events
        /\ Len(stream[s]) >= 1
        /\ pc[t] = "streaming"
        /\ receiver[s] < receiver[t]
        /\ \E i \in 1..Len(TailEvents(t)) :
              /\ TailEvents(t)[i].entity_version[1] > channel[receiver[s]].entity_version
              /\ \A k \in 1..Len(stream[s]) :
                    stream[s][k].entity_version[1] < TailEvents(t)[i].entity_version[1]

\* every entity enters the store as a bootstrap entity or as the after
\* state of the latest event, so taking these in every reachable state
\* takes every entity the store has held
EntitiesHeld ==
    IF channel = <<>> THEN {entities[k] : k \in 1..Len(entities)}
    ELSE {channel[Len(channel)].after[1]}

(* C27: row projection.  For every entity E the store has held and every   *)
(* list P of symbols, to_entity_row(E, P) has one value per symbol of P,   *)
(* in P's order: EntityReference(E.entity_id) where the symbol is @id,     *)
(* otherwise                                                               *)
(* E's attribute for the symbol, or null when E has none.  A MatchAll row  *)
(* query with a registered projection (four projections are taken here)    *)
(* returns one such row per stored entity, in id order.                    *)
Projections == SeqsUpTo({EntityIdSymbol, SymbolNameSymbol, "color"}, MaxItems)
RowQueryProjections ==
    { <<>>,
      <<EntityIdSymbol, SymbolNameSymbol>>,
      <<EntityIdSymbol, "color">>,
      <<"color", SymbolNameSymbol, EntityIdSymbol>> }

IsProjectionOf(row, E, P) ==
    /\ DOMAIN row = 1..Len(P)
    /\ \A i \in 1..Len(P) :
          IF P[i] = EntityIdSymbol
            THEN row[i] = <<[tag |-> "EntityId", str |-> "", id |-> E.entity_id]>>
            ELSE IF P[i] \in DOMAIN E.attributes
                   THEN row[i] = <<E.attributes[P[i]]>>
                   ELSE row[i] = <<>>

C27_RowProjection ==
    /\ \A P \in Projections, E \in EntitiesHeld :
          IsProjectionOf(to_entity_row(E, P), E, P)
    /\ \A P \in RowQueryProjections :
          (\A i \in 1..Len(P) : P[i] \in DOMAIN attribute_types) =>
              LET result == query_entity_rows(Store, MatchAll, P) IN
              /\ result.ok
              /\ Len(result.entity_rows) = Len(entities)
              /\ \A k \in 1..Len(entities) :
                    /\ entities[k].entity_id = k - 1
                    /\ result.entity_rows[k] = to_entity_row(entities[k], P)

\* a row subscriber watching every entity has been sent the rows of its
\* initial query: one per entity, among them a row with a color and a row
\* whose color is null
C27_Witness ==
    \E s \in Subscribers :
        /\ Started(s) /\ wreq[s].rows /\ wreq[s].send_initial_events
        /\ wreq[s].query = MatchAll
        /\ wreq[s].attribute_types = <<EntityIdSymbol, "color">>
        /\ \E i, j \in 1..Len(stream[s]) :
              /\ stream[s][i].kind = "AddedRow"
              /\ stream[s][i].after[1] = <<<<EntityIdValue(0)>>, <<>>>>
              /\ stream[s][j].kind = "AddedRow"
              /\ stream[s][j].after[1][1] # <<>>
              /\ stream[s][j].after[1][2] = <<StringValue("red")>>

(* C28: query algebra.  For every query node and every entity the store    *)
(* has held: an And node matches exactly when each of its clauses matches  *)
(* (with no clause, always), an Or node exactly when one of its clauses    *)
(* matches (with no clause, never), MatchAll always, MatchNone never, and  *)
(* HasAttributeTypes exactly when each listed symbol is a key of the       *)
(* entity's attribute map (with no symbol, always); and the one-shot       *)
(* query and the watch filter keep exactly the entities that match.        *)
AlgebraLeaves ==
    { MatchAll, MatchNone,
      HasAttributeTypes(<<>>),
      HasAttributeTypes(<<"color">>),
      HasAttributeTypes(<<EntityIdSymbol>>),
      HasAttributeTypes(<<SymbolNameSymbol, ValueTypeSymbol>>),
      HasAttributeTypes(<<"color", SymbolNameSymbol>>) }

AlgebraClauses ==
    SeqsUpTo({MatchAll, MatchNone, HasAttributeTypes(<<"color">>)}, MaxItems)

AlgebraNested ==
    { AndNode(<<OrNode(<<>>)>>),
      OrNode(<<AndNode(<<>>)>>),
      OrNode(<<AndNode(<<HasAttributeTypes(<<"color">>),
                         HasAttributeTypes(<<SymbolNameSymbol>>)>>),
               MatchNone>>),
      AndNode(<<OrNode(<<HasAttributeTypes(<<"color">>),
                        HasAttributeTypes(<<ValueTypeSymbol>>)>>),
                HasAttributeTypes(<<SymbolNameSymbol>>)>>) }

AlgebraNodes ==
    AlgebraLeaves \cup {AndNode(cs) : cs \in AlgebraClauses}
                  \cup {OrNode(cs) : cs \in AlgebraClauses}
                  \cup AlgebraNested \cup Queries

MatchLaw(node, e) ==
    CASE node.kind = "MatchAll"  -> matches(node, e)
      [] node.kind = "MatchNone" -> ~matches(node, e)
      [] node.kind = "And" ->
           /\ matches(node, e) <=> (\A i \in 1..Len(node.clauses) :
                                        matches(node.clauses[i], e))
           /\ node.clauses = <<>> => matches(node, e)
      [] node.kind = "Or" ->
           /\ matches(node, e) <=> (\E i \in 1..Len(node.clauses) :
                                        matches(node.clauses[i], e))
           /\ node.clauses = <<>> => ~matches(node, e)
      [] node.kind = "HasAttributeTypes" ->
           /\ matches(node, e) <=>
                 {node.attribute_types[i] : i \in 1..Len(node.attribute_types)}
                    \subseteq DOMAIN e.attributes
           /\ node.attribute_types = <<>> => matches(node, e)

C28_QueryAlgebra ==
    /\ \A node \in AlgebraNodes, e \in EntitiesHeld :
          /\ MatchLaw(node, e)
          /\ FilterMatching(<<e>>, node) = (IF matches(node, e) THEN <<e>> ELSE <<>>)
          /\ FilterMatching(<<>>, node) = <<>>
    /\ \A node \in AlgebraNested \cup Queries :
          LET found == query_entities(Store, node).entities IN
          /\ \A k \in 1..Len(entities) :
                matches(node, entities[k])
                   <=> \E i \in 1..Len(found) : found[i] = entities[k]
          /\ \A i, j \in 1..Len(found) :
                i < j => found[i].entity_id < found[j].entity_id

\* a subscriber watching with the And/Or query has been sent the entities
\* its initial query found, and an event its filter let through, while the
\* store holds an entity the query does not match
C28_Witness ==
    \E s \in Subscribers :
        /\ pc[s] = "streaming" /\ ~wreq[s].rows /\ wreq[s].send_initial_events
        /\ wreq[s].query.kind = "And"
        /\ Len(TailEvents(s)) >= 1
        /\ InitialLen(s) >= 2
        /\ \E k \in 1..Len(entities) : ~matches(wreq[s].query, entities[k])

(* C29: projection validation.  A row query whose projection lists a       *)
(* symbol that is not in the registry fails, and a row watch with such a   *)
(* projection is rejected without a stream (C29_ValidatedWhenQueried,      *)
(* for the watch that asks for initial events); and the same holds for a   *)
(* row watch whatever its send_initial_events: a row watch that has a      *)
(* stream has a projection of registered symbols only.                     *)
Registered(symbols) ==
    \A i \in 1..Len(symbols) : symbols[i] \in DOMAIN attribute_types

C29_ValidatedWhenQueried ==
    /\ \A P \in Projections, q \in Queries :
          ~Registered(P) =>
              LET result == query_entity_rows(Store, q, P) IN
              /\ ~result.ok
              /\ result.err = "UnregisteredAttributeTypes"
              /\ result.entity_rows = <<>>
    /\ \A s \in Subscribers :
          (wreq[s].rows /\ wreq[s].send_initial_events /\ Started(s))
             => Registered(wreq[s].attribute_types)
    /\ \A s \in Subscribers : pc[s] = "failed" => stream[s] = <<>>

C29_ProjectionValidated ==
    /\ C29_ValidatedWhenQueried
    /\ \A s \in Subscribers :
          (wreq[s].rows /\ Started(s)) => Registered(wreq[s].attribute_types)

(* C30: bootstrap.  A store no call has changed holds exactly six          *)
(* entities, with ids 0..5 and the names @id, @symbolName, @valueType,     *)
(* @valueType/text, @valueType/entityRef, @valueType/bytes; its registry   *)
(* is exactly @id -> EntityReference, @symbolName -> Text, @valueType ->   *)
(* EntityReference; and get_entity by EntityId(i) and by Symbol(name of i) *)
(* both succeed with entity i.                                             *)
BootstrapNames ==
    << "@id", "@symbolName", "@valueType",
       "@valueType/text", "@valueType/entityRef", "@valueType/bytes" >>

Fresh == entity_version_sequence = 0 /\ channel = <<>>

C30_Bootstrap ==
    Fresh =>
        /\ Len(entities) = Len(BootstrapNames)
        /\ \A i \in 1..Len(BootstrapNames) :
              /\ entities[i].entity_id = i - 1
              /\ "@symbolName" \in DOMAIN entities[i].attributes
              /\ entities[i].attributes["@symbolName"]
                    = [tag |-> "String", str |-> BootstrapNames[i], id |-> 0]
              /\ LET byId == get_entity(Store, EntityIdLocator(i - 1))
                     bySymbol == get_entity(Store, SymbolLocator(BootstrapNames[i]))
                 IN /\ byId.ok /\ bySymbol.ok
                    /\ byId.entity = <<entities[i]>>
                    /\ bySymbol.entity = byId.entity
        /\ DOMAIN attribute_types = {"@id", "@symbolName", "@valueType"}
        /\ attribute_types["@id"] = "EntityReference"
        /\ attribute_types["@symbolName"] = "Text"
        /\ attribute_types["@valueType"] = "EntityReference"
        /\ attribute_types = new_attribute_types(entities)

\* the store as constructed: the entity with EntityId 3 is the one named
\* @valueType/text, and it induces no registry entry
C30_Witness ==
    /\ Fresh
    /\ get_entity(Store, EntityIdLocator(3)).entity[1].attributes["@symbolName"].str
          = "@valueType/text"
    /\ get_entity(Store, SymbolLocator("@valueType/text")).entity[1].entity_id = 3
    /\ "@valueType/text" \notin DOMAIN attribute_types

(* C31: get_entity is read-only.  For a Symbol locator it returns the      *)
(* entity of lowest id whose @symbolName is the String of that symbol, and *)
(* EntityNotFound when no entity has that name; in either case the store   *)
(* it leaves (entities, registry, version sequence) is the store it found  *)
(* and it sends no event.                                                  *)
GetSymbols == {"w1", "color", "@id", "@symbolName", "@valueType/text", "nosuch"}

NamedEntities(s) ==
    {k \in 1..Len(entities) :
        /\ "@symbolName" \in DOMAIN entities[k].attributes
        /\ entities[k].attributes["@symbolName"]
              = [tag |-> "String", str |-> s, id |-> 0]}

C31_GetEntityReadOnly ==
    \A s \in GetSymbols :
        LET r == get_entity(Store, SymbolLocator(s)) IN
        /\ r.st = Store
        /\ r.events = <<>>
        /\ IF NamedEntities(s) = {}
             THEN ~r.ok /\ r.err = "EntityNotFound" /\ r.entity = <<>>
             ELSE /\ r.ok
                  /\ r.entity[1].entity_id + 1 \in NamedEntities(s)
                  /\ r.entity[1] = entities[r.entity[1].entity_id + 1]
                  /\ \A k \in NamedEntities(s) : r.entity[1].entity_id + 1 <= k

\* two entities are named w1, get_entity by Symbol(w1) returns the one of
\* lower id, and no entity is named nosuch
C31_Witness ==
    /\ Cardinality(NamedEntities("w1")) >= 2
    /\ get_entity(Store, SymbolLocator("w1")).ok
    /\ \E k \in NamedEntities("w1") :
          get_entity(Store, SymbolLocator("w1")).entity[1].entity_id + 1 < k
    /\ ~get_entity(Store, SymbolLocator("nosuch")).ok

(* C35: atomic rejection.  When some item of an update_entity request, at  *)
(* whatever position, names an unregistered symbol, names @valueType, or   *)
(* carries a value whose tag is not the one its registered type asks for,  *)
(* the call fails and applies none of its items: entities, registry and    *)
(* version sequence are as before and no event is sent.                    *)
TagOf(value_type) ==
    CASE value_type = "Text"            -> "String"
      [] value_type = "EntityReference" -> "EntityId"
      [] value_type = "Bytes"           -> "Bytes"

ItemFails(a) ==
    \/ a.symbol = "@valueType"
    \/ a.symbol \notin DOMAIN attribute_types
    \/ /\ a.symbol \in DOMAIN attribute_types
       /\ a.value # <<>>
       /\ a.value[1].tag # TagOf(attribute_types[a.symbol])

C35_AtomicRejection ==
    \A items \in SeqsUpTo(Items, MaxItems) :
        (\E i \in 1..Len(items) : ItemFails(items[i])) =>
            \A locator \in Locators :
                LET r == update_entity(Store, [entity_locator |-> locator,
                                               attributes_to_update |-> items])
                IN /\ ~r.ok
                   /\ r.err \in ValidationErrors
                   /\ r.st = Store
                   /\ r.entity = <<>>
                   /\ r.events = <<>>

\* color is registered as Text and w1 exists without a color: the request
\* [color = "red", color = Bytes] on w1 is rejected for its second item,
\* while its first item alone would be applied
C35_Witness ==
    /\ "color" \in DOMAIN attribute_types /\ attribute_types["color"] = "Text"
    /\ FindBySymbolName(entities, "w1") # 0
    /\ LET good == Item("color", <<StringValue("red")>>)
           bad == Item("color", <<BytesValue("b1")>>)
           alone == update_entity(Store, [entity_locator |-> SymbolLocator("w1"),
                                          attributes_to_update |-> <<good>>])
           both == update_entity(Store, [entity_locator |-> SymbolLocator("w1"),
                                         attributes_to_update |-> <<good, bad>>])
       IN /\ alone.ok /\ alone.st # Store /\ alone.events # <<>>
          /\ ~both.ok /\ both.st = Store

(* C36: row-watch suppression is decided on the projected rows.  Every     *)
(* live event of a row subscriber is a channel event whose sides are       *)
(* first kept or dropped by the query and then projected (an absent side   *)
(* stays absent), and its two projected sides differ; a channel event      *)
(* whose projected sides are equal, such as a change of an attribute       *)
(* outside the projection on an entity that matches before and after, puts *)
(* nothing on the stream; and the initial events are Added rows followed   *)
(* by the Bookmark.                                                        *)
ProjectedSide(opt, req) == Columns(KeptSide(opt, req.query), req)

C36_RowSuppression ==
    \A s \in Subscribers :
        (Started(s) /\ wreq[s].rows) =>
            /\ \A i \in 1..Len(TailEvents(s)) :
                  LET x == TailEvents(s)[i] IN
                  /\ x.kind = "RowEvent"
                  /\ x.before # x.after
                  /\ \E j \in 1..receiver[s] :
                        /\ x.entity_version = <<channel[j].entity_version>>
                        /\ x.before = ProjectedSide(channel[j].before, wreq[s])
                        /\ x.after = ProjectedSide(channel[j].after, wreq[s])
                        /\ x.before = <<>>
                              <=> KeptSide(channel[j].before, wreq[s].query) = <<>>
                        /\ x.after = <<>>
                              <=> KeptSide(channel[j].after, wreq[s].query) = <<>>
            /\ \A j \in 1..Len(channel) :
                  ProjectedSide(channel[j].before, wreq[s])
                     = ProjectedSide(channel[j].after, wreq[s])
                  => \A i \in 1..Len(TailEvents(s)) :
                        TailEvents(s)[i].entity_version # <<channel[j].entity_version>>
            /\ wreq[s].send_initial_events =>
                  /\ InitialLen(s) >= 1
                  /\ IsBookmark(stream[s][InitialLen(s)])
                  /\ \A i \in 1..(InitialLen(s) - 1) :
                        /\ stream[s][i].kind = "AddedRow"
                        /\ stream[s][i].before = <<>>
                        /\ Len(stream[s][i].after[1]) = Len(wreq[s].attribute_types)

\* a subscriber watching every entity with the projection [@id] has
\* received the row of a new entity and has then read a change of that
\* entity's color, which it was sent nothing for
C36_Witness ==
    \E s \in Subscribers :
        /\ pc[s] = "streaming" /\ wreq[s].rows /\ ~lagged[s]
        /\ wreq[s].query = MatchAll
        /\ wreq[s].attribute_types = <<EntityIdSymbol>>
        /\ \E i \in 1..Len(TailEvents(s)), j \in 1..receiver[s] :
              /\ TailEvents(s)[i].entity_version[1] < channel[j].entity_version
              /\ channel[j].before # <<>> /\ channel[j].after # <<>>
              /\ channel[j].before[1].attributes # channel[j].after[1].attributes
              /\ TailEvents(s)[i].after
                    = <<<< <<EntityIdValue(channel[j].after[1].entity_id)>> >>>>
              /\ \A k \in 1..Len(TailEvents(s)) :
                    TailEvents(s)[k].entity_version # <<channel[j].entity_version>>

----------------------------------------------------------------------------
(* The boundary: errors of the store and of the conversion become the      *)
(* status of the call (From<AttributeServerError> for Status).             *)

AttributeStoreErrorKinds ==
    {"InvalidSymbolName", "EntityNotFound", "AttributeTypeAlreadyExists",
     "InvalidValueType", "ValidationError", "UpdateNotIdempotent", "Other"}

FieldPaths ==
    {"attribute_types[0]", "attributes_to_update[0]", "attributes_to_update[1]"}
ErrorMessages == {"unregistered attribute type", "immutable attribute type"}

\* garde::Report: the (path, error) pairs in the order they were appended
Reports == SeqsUpTo(FieldPaths \X ErrorMessages, MaxItems)

AttributeStoreError(kind, report) ==
    [type |-> "AttributeStoreError", kind |-> kind, report |-> report,
     path |-> ""]
ConversionError(path) ==
    [type |-> "ConversionError", kind |-> "InField", report |-> <<>>,
     path |-> path]

AttributeServerErrors ==
    {AttributeStoreError(k, <<>>) :
        k \in AttributeStoreErrorKinds \ {"ValidationError"}}
    \cup {AttributeStoreError("ValidationError", r) : r \in Reports}
    \cup {ConversionError(p) : p \in FieldPaths}

\* ErrorDetails::with_bad_request over the report's pairs, in their order
FieldViolations(report) ==
    [i \in 1..Len(report) |->
        [field |-> report[i][1], description |-> report[i][2]]]

Status(code, message, violations) ==
    [code |-> code, message |-> message, violations |-> violations]

from(value) ==
    IF value.type = "AttributeStoreError"
    THEN CASE value.kind = "EntityNotFound" ->
                 Status("NotFound", "no entity found matching locator", <<>>)
           [] value.kind = "ValidationError" ->
                 Status("InvalidArgument", "validation error",
                        FieldViolations(value.report))
           [] OTHER -> Status("InvalidArgument", value.kind, <<>>)
    ELSE Status("InvalidArgument", "conversion error",
                <<[field |-> value.path, description |-> value.kind]>>)

StatusInit ==
    /\ ServerInit
    /\ OutsideIdle
    /\ arg \in {<<e>> : e \in AttributeServerErrors}
    /\ ret = <<>>

\* a handler's `?` turns the error of the call into the status it answers with
StatusFrom ==
    /\ arg # <<>>
    /\ ret = <<>>
    /\ ret' = <<from(arg[1])>>
    /\ UNCHANGED <<storeVars, watchVars, arg, adapterVars, mavlinkVars>>

StatusNext == StatusFrom

StatusSpec == StatusInit /\ [][StatusNext]_vars

\* the kinds the code names are mapped as the code maps them: EntityNotFound
\* to not-found, ValidationError to invalid-argument with one field violation
\* per (path, message) pair of the report, in the report's order
C32_MappedAsCoded ==
    ret # <<>> =>
        /\ arg[1].kind = "EntityNotFound" => ret[1].code = "NotFound"
        /\ arg[1].kind = "ValidationError" =>
              /\ ret[1].code = "InvalidArgument"
              /\ Len(ret[1].violations) = Len(arg[1].report)
              /\ \A i \in 1..Len(arg[1].report) :
                    /\ ret[1].violations[i].field = arg[1].report[i][1]
                    /\ ret[1].violations[i].description = arg[1].report[i][2]

\* C32: at the boundary EntityNotFound maps to not-found, ValidationError maps
\* to invalid-argument with one field violation per (path, message) pair of
\* the report, and Other (an internal invariant violation) maps to internal
C32_StatusMapping ==
    /\ C32_MappedAsCoded
    /\ (ret # <<>> /\ arg[1].kind = "Other") => ret[1].code = "Internal"

----------------------------------------------------------------------------
(* The external form of an EntityId: the record {database_id: int64} in    *)
(* protobuf wire encoding, then base64 with the URL-safe alphabet and      *)
(* padding.  Bytes are numbers 0..255, a string is a sequence of           *)
(* characters.                                                             *)

EntityIds ==
    (-40..40) \cup {127, 128, 129, 255, 256, 300, 16383, 16384, 2097151,
                    2097152, 268435455, 268435456, 2147483647,
                    -127, -128, -129, -16384, -16385, -2147483647}

\* base64::alphabet::URL_SAFE
Base64Alphabet ==
    <<"A", "B", "C", "D", "E", "F", "G", "H", "I", "J", "K", "L", "M",
      "N", "O", "P", "Q", "R", "S", "T", "U", "V", "W", "X", "Y", "Z",
      "a", "b", "c", "d", "e", "f", "g", "h", "i", "j", "k", "l", "m",
      "n", "o", "p", "q", "r", "s", "t", "u", "v", "w", "x", "y", "z",
      "0", "1", "2", "3", "4", "5", "6", "7", "8", "9", "-", "_">>

Symbol64(sextet) == Base64Alphabet[sextet + 1]

\* the 7-bit groups of the two's-complement 64-bit word of n, low group
\* first, each but the last with the continuation bit; `groups` counts the
\* groups not yet written (ten at the start, the tenth holds bit 63 alone)
RECURSIVE encode_varint(_, _)
encode_varint(n, groups) ==
    IF groups = 1 THEN <<n % 2>>
    ELSE IF n \div 128 = 0 THEN <<n % 128>>
    ELSE <<(n % 128) + 128>> \o encode_varint(n \div 128, groups - 1)

\* InternalEntityId::encode_to_vec: field 1, wire type varint (key byte 8);
\* a proto3 scalar that holds the default 0 is not written
encode_to_vec(database_id) ==
    IF database_id = 0 THEN <<>>
    ELSE <<8>> \o encode_varint(database_id, 10)

\* (base64_encode_no_pad: the engine URL_SAFE_NO_PAD, which leaves a short
\*  last group without "=")
RECURSIVE base64_encode_no_pad(_)
base64_encode_no_pad(bytes) ==
    IF Len(bytes) = 0 THEN <<>>
    ELSE IF Len(bytes) = 1
    THEN <<Symbol64(bytes[1] \div 4), Symbol64((bytes[1] % 4) * 16)>>
    ELSE IF Len(bytes) = 2
    THEN <<Symbol64(bytes[1] \div 4),
           Symbol64((bytes[1] % 4) * 16 + bytes[2] \div 16),
           Symbol64((bytes[2] % 16) * 4)>>
    ELSE <<Symbol64(bytes[1] \div 4),
           Symbol64((bytes[1] % 4) * 16 + bytes[2] \div 16),
           Symbol64((bytes[2] % 16) * 4 + bytes[3] \div 64),
           Symbol64(bytes[3] % 64)>>
         \o base64_encode_no_pad(SubSeq(bytes, 4, Len(bytes)))

\* URL_SAFE.encode: three bytes give four symbols, a last group of one or
\* two bytes is padded with "="
RECURSIVE base64_encode(_)
base64_encode(bytes) ==
    IF Len(bytes) = 0 THEN <<>>
    ELSE IF Len(bytes) = 1
    THEN <<Symbol64(bytes[1] \div 4), Symbol64((bytes[1] % 4) * 16), "=", "=">>
    ELSE IF Len(bytes) = 2
    THEN <<Symbol64(bytes[1] \div 4),
           Symbol64((bytes[1] % 4) * 16 + bytes[2] \div 16),
           Symbol64((bytes[2] % 16) * 4), "=">>
    ELSE <<Symbol64(bytes[1] \div 4),
           Symbol64((bytes[1] % 4) * 16 + bytes[2] \div 16),
           Symbol64((bytes[2] % 16) * 4 + bytes[3] \div 64),
           Symbol64(bytes[3] % 64)>>
         \o base64_encode(SubSeq(bytes, 4, Len(bytes)))

\* IntoProto<String> for EntityId
entity_id_into_proto(database_id) == base64_encode(encode_to_vec(database_id))

IsSymbol64(ch) == \E i \in 1..64 : Base64Alphabet[i] = ch
Sextet(ch) == (CHOOSE i \in 1..64 : Base64Alphabet[i] = ch) - 1

DecodeError == [ok |-> FALSE, bytes |-> <<>>]

\* URL_SAFE.decode: the length is a multiple of four, padding only closes the
\* last group, and the bits a padded group leaves over are zero
RECURSIVE base64_decode(_)
base64_decode(chars) ==
    IF Len(chars) = 0 THEN [ok |-> TRUE, bytes |-> <<>>]
    ELSE IF Len(chars) < 4 THEN DecodeError
    ELSE IF ~(IsSymbol64(chars[1]) /\ IsSymbol64(chars[2])) THEN DecodeError
    ELSE LET a == Sextet(chars[1])
             b == Sextet(chars[2])
             rest == SubSeq(chars, 5, Len(chars))
         IN  IF chars[3] = "=" /\ chars[4] = "="
             THEN IF Len(rest) = 0 /\ b % 16 = 0
                  THEN [ok |-> TRUE, bytes |-> <<a * 4 + b \div 16>>]
                  ELSE DecodeError
             ELSE IF ~IsSymbol64(chars[3]) THEN DecodeError
             ELSE LET c == Sextet(chars[3]) IN
                  IF chars[4] = "="
                  THEN IF Len(rest) = 0 /\ c % 4 = 0
                       THEN [ok |-> TRUE,
                             bytes |-> <<a * 4 + b \div 16,
                                         (b % 16) * 16 + c \div 4>>]
                       ELSE DecodeError
                  ELSE IF ~IsSymbol64(chars[4]) THEN DecodeError
                  ELSE LET d == Sextet(chars[4])
                           r == base64_decode(rest)
                       IN  IF r.ok
                           THEN [ok |-> TRUE,
                                 bytes |-> <<a * 4 + b \div 16,
                                             (b % 16) * 16 + c \div 4,
                                             (c % 4) * 64 + d>> \o r.bytes]
                           ELSE DecodeError

VarintError == [ok |-> FALSE, value |-> 0, rest |-> <<>>]

\* prost's decode_varint read as an i64: the value of the groups from `group`
\* upward, in units of 128^(group-1); the tenth group is bit 63, which in
\* two's complement weighs -2^63, and may hold nothing above that bit
RECURSIVE decode_varint(_, _)
decode_varint(bytes, group) ==
    IF Len(bytes) = 0 THEN VarintError
    ELSE IF group = 10
    THEN IF bytes[1] <= 1
         THEN [ok |-> TRUE, value |-> 0 - bytes[1], rest |-> Tail(bytes)]
         ELSE VarintError
    ELSE IF bytes[1] < 128
    THEN [ok |-> TRUE, value |-> bytes[1], rest |-> Tail(bytes)]
    ELSE LET r == decode_varint(Tail(bytes), group + 1) IN
         IF r.ok
         THEN [ok |-> TRUE, value |-> (bytes[1] - 128) + 128 * r.value,
               rest |-> r.rest]
         ELSE VarintError

\* InternalEntityId::decode: fields are merged in the order they come, an
\* absent field leaves the default; only field 1 as a varint is read here
RECURSIVE merge(_, _)
merge(bytes, database_id) ==
    IF Len(bytes) = 0 THEN [ok |-> TRUE, database_id |-> database_id]
    ELSE IF bytes[1] # 8 THEN [ok |-> FALSE, database_id |-> 0]
    ELSE LET r == decode_varint(Tail(bytes), 1) IN
         IF r.ok THEN merge(r.rest, r.value)
         ELSE [ok |-> FALSE, database_id |-> 0]

\* TryFromProto<String> for EntityId
entity_id_try_from_proto(value) ==
    LET decoded_bytes == base64_decode(value) IN
    IF ~decoded_bytes.ok THEN [ok |-> FALSE, entity_id |-> 0]
    ELSE LET internal_entity_id == merge(decoded_bytes.bytes, 0) IN
         IF ~internal_entity_id.ok THEN [ok |-> FALSE, entity_id |-> 0]
         ELSE [ok |-> TRUE, entity_id |-> internal_entity_id.database_id]

EntityIdInit ==
    /\ ServerInit
    /\ OutsideIdle
    /\ arg \in {<<n>> : n \in EntityIds}
    /\ ret = <<>>

\* an entity leaves the server: its id is put in the external form
EntityIdIntoProto ==
    /\ Len(ret) = 0
    /\ ret' = <<entity_id_into_proto(arg[1])>>
    /\ UNCHANGED <<storeVars, watchVars, arg, adapterVars, mavlinkVars>>

\* the external form comes back in a locator and is read
EntityIdTryFromProto ==
    /\ Len(ret) = 1
    /\ ret' = <<ret[1], entity_id_try_from_proto(ret[1])>>
    /\ UNCHANGED <<storeVars, watchVars, arg, adapterVars, mavlinkVars>>

EntityIdNext ==
    \/ EntityIdIntoProto
    \/ EntityIdTryFromProto

EntityIdSpec == EntityIdInit /\ [][EntityIdNext]_vars

\* C33: for every EntityId n, zero and negative values included, reading the
\* external string that was produced from n succeeds and gives n again
C33_RoundTrip ==
    Len(ret) = 2 => ret[2] = [ok |-> TRUE, entity_id |-> arg[1]]

\* a negative id, which takes all ten groups, and the id 0, whose record is
\* empty, have both gone out and come back
C33_Witness ==
    /\ Len(ret) = 2
    /\ arg[1] < 0
    /\ Len(ret[1]) = 16
    /\ entity_id_into_proto(0) = <<>>
    /\ entity_id_try_from_proto(<<>>).ok

----------------------------------------------------------------------------
(* Symbol construction.  A string is a sequence of characters, a character *)
(* its code point.                                                         *)

LowerA == 97
Backslash == 92
DoubleQuote == 34
Space == 32
Tilde == 126

\* the most characters the regex admits ({1,60})
SymbolMaxChars == 60

\* a letter, the two excluded characters, the ends of the printable range,
\* and the control characters BEL (7) and DEL (127)
SymbolChars == {LowerA, Backslash, DoubleQuote, 7, Space, Tilde, 127}

\* "aaa...a" of length n
Repeated(n) == [i \in 1..n |-> LowerA]

\* the strings tried: every string of up to two characters, and the strings
\* of one letter at the edges of the length limit with at most one character
\* replaced
SymbolStrings ==
    SeqsUpTo(SymbolChars, 2)
    \cup {[Repeated(n) EXCEPT ![i] = c] :
             n \in {SymbolMaxChars - 1, SymbolMaxChars, SymbolMaxChars + 1},
             i \in {1, 2, SymbolMaxChars - 1, SymbolMaxChars},
             c \in SymbolChars}

\* [[:print:]]: the ASCII characters from space to tilde
Print_class(c) == c >= Space /\ c <= Tilde

\* (SYMBOL_REGEX_print_only: the class without the subtraction,
\*  ^[[:print:]]{1,60}$)
SYMBOL_REGEX_print_only(string) ==
    /\ Len(string) >= 1
    /\ Len(string) <= SymbolMaxChars
    /\ \A i \in 1..Len(string) : Print_class(string[i])

\* SYMBOL_REGEX.is_match: ^[[:print:]--[\\"]]{1,60}$, anchored at both ends
SYMBOL_REGEX(string) ==
    /\ Len(string) >= 1
    /\ Len(string) <= SymbolMaxChars
    /\ \A i \in 1..Len(string) :
          Print_class(string[i]) /\ string[i] \notin {Backslash, DoubleQuote}

\* TryFrom<Cow<'static, str>> for Symbol
symbol_try_from(string) ==
    IF ~SYMBOL_REGEX(string)
    THEN [ok |-> FALSE, err |-> "InvalidSymbolName", symbol |-> <<>>]
    ELSE [ok |-> TRUE, err |-> "", symbol |-> string]

SymbolInit ==
    /\ ServerInit
    /\ OutsideIdle
    /\ arg \in {<<string>> : string \in SymbolStrings}
    /\ ret = <<>>

SymbolTryFrom ==
    /\ ret = <<>>
    /\ ret' = <<symbol_try_from(arg[1])>>
    /\ UNCHANGED <<storeVars, watchVars, arg, adapterVars, mavlinkVars>>

SymbolNext == SymbolTryFrom

SymbolSpec == SymbolInit /\ [][SymbolNext]_vars

\* C34: constructing a Symbol fails with InvalidSymbolName when the string is
\* empty, has more than 60 characters, or holds a non-printable character, a
\* backslash or a double quote; in every other case it succeeds with the
\* string as the symbol
C34_SymbolConstruction ==
    ret # <<>> =>
        LET string == arg[1]
            bad == \/ Len(string) = 0
                   \/ Len(string) > 60
                   \/ \E i \in 1..Len(string) :
                         \/ string[i] < 32
                         \/ string[i] > 126
                         \/ string[i] = Backslash
                         \/ string[i] = DoubleQuote
        IN  /\ bad => ret[1] = [ok |-> FALSE, err |-> "InvalidSymbolName",
                                symbol |-> <<>>]
            /\ ~bad => ret[1] = [ok |-> TRUE, err |-> "", symbol |-> string]

\* a string of exactly 60 printable characters was accepted, and the strings
\* of length 0 and 61 and those with a backslash, a double quote or a
\* non-printable character are among the ones refused
C34_Witness ==
    /\ ret # <<>>
    /\ Len(arg[1]) = 60
    /\ ret[1].ok
    /\ {<<>>, Repeated(61), <<LowerA, Backslash>>, <<DoubleQuote>>, <<7>>}
          \subseteq {s \in SymbolStrings : ~symbol_try_from(s).ok}
    /\ symbol_try_from(<<LowerA>>).ok

----------------------------------------------------------------------------
(* The telemetry adapter's setup (mavlink_run): it creates its attribute   *)
(* types, skipping the ones the server reports as existing, then its       *)
(* entities.  Another client of the same server creates attribute types    *)
(* in between.                                                             *)

MaxRuns == 2

\* static ATTRIBUTE_TYPES
ATTRIBUTE_TYPES ==
    << [symbol |-> "pb/fileDescriptorSet",    value_type |-> "Bytes"],
       [symbol |-> "pb/fileDescriptorSetRef", value_type |-> "EntityReference"],
       [symbol |-> "pb/messageName",          value_type |-> "Text"],
       [symbol |-> "mavlink/globalPosition",  value_type |-> "Bytes"] >>

\* create_mavlink_fdset_request
MavlinkFdsetRequest ==
    [entity_locator |-> SymbolLocator("mavlink/fileDescriptorSet"),
     attributes_to_update |->
        << Item(SymbolNameSymbol, <<StringValue("mavlink/fileDescriptorSet")>>),
           Item("pb/fileDescriptorSet", <<BytesValue("FILE_DESCRIPTOR_SET")>>) >>]

\* create_global_position_request, with the id the first response carried
GlobalPositionRequest(mavlink_fdset_entity_id) ==
    [entity_locator |-> SymbolLocator("mavlink/globalPosition"),
     attributes_to_update |->
        << Item(SymbolNameSymbol, <<StringValue("mavlink/globalPosition")>>),
           Item("pb/messageName", <<StringValue("GlobalPosition")>>),
           Item("pb/fileDescriptorSetRef",
                <<EntityIdValue(mavlink_fdset_entity_id)>>) >>]

\* the attribute types another client creates on the same server
OtherClientRequests ==
    [symbol : {"pb/messageName", "color"}, value_type : {"Text", "Bytes"}]

\* the status a handler answers with: Ok, or the error through `?`
StatusOf(res) ==
    IF res.ok THEN Status("Ok", "", <<>>)
    ELSE from(AttributeStoreError(res.err, <<>>))

\* the process is started (again, once an earlier one has set up)
AdapterStart ==
    /\ adapter.pc \in {"idle", "running"}
    /\ adapter.run < MaxRuns
    /\ adapter' = [pc |-> "attribute_types", idx |-> 0, run |-> adapter.run + 1,
                   status |-> "", at |-> "", fdset |-> <<>>]
    /\ UNCHANGED <<storeVars, watchVars, boundaryVars, mavlinkVars>>

\* one turn of the loop over ATTRIBUTE_TYPES: the call, then the match on
\* its result
AdapterCreateAttributeType ==
    /\ adapter.pc = "attribute_types"
    /\ LET res == create_attribute_type(Store, ATTRIBUTE_TYPES[adapter.idx + 1])
           status == StatusOf(res)
       IN  /\ Commit(res)
           /\ IF status.code = "Ok" \/ status.code = "AlreadyExists"
              THEN adapter' =
                     [adapter EXCEPT
                        !.idx = IF adapter.idx + 1 = Len(ATTRIBUTE_TYPES)
                                THEN 0 ELSE adapter.idx + 1,
                        !.pc = IF adapter.idx + 1 = Len(ATTRIBUTE_TYPES)
                               THEN "entities" ELSE "attribute_types",
                        !.status = status.code]
              ELSE adapter' = [adapter EXCEPT !.pc = "returned_err",
                                              !.at = "attribute_types",
                                              !.status = status.code]
    /\ UNCHANGED <<watchVars, boundaryVars, mavlinkVars>>

\* the two update_entity calls, each ended by `?`
AdapterUpdateEntity ==
    /\ adapter.pc = "entities"
    /\ LET req == IF adapter.idx = 0 THEN MavlinkFdsetRequest
                  ELSE GlobalPositionRequest(adapter.fdset[1])
           res == update_entity(Store, req)
           status == StatusOf(res)
       IN  /\ Commit(res)
           /\ IF status.code = "Ok"
              THEN adapter' =
                     [adapter EXCEPT
                        !.idx = IF adapter.idx = 0 THEN 1 ELSE 0,
                        !.pc = IF adapter.idx = 0 THEN "entities" ELSE "running",
                        !.fdset = IF adapter.idx = 0
                                  THEN <<res.entity[1].entity_id>> ELSE @,
                        !.status = status.code]
              ELSE adapter' = [adapter EXCEPT !.pc = "returned_err",
                                              !.at = "entities",
                                              !.status = status.code]
    /\ UNCHANGED <<watchVars, boundaryVars, mavlinkVars>>

AdapterNext ==
    \/ AdapterStart
    \/ AdapterCreateAttributeType
    \/ AdapterUpdateEntity
    \/ \E req \in OtherClientRequests : CreateAttributeType(req)

AdapterSpec == Init /\ [][AdapterNext]_vars

\* C37: a CreateAttributeType of the adapter for a symbol that already exists
\* is answered with a status the adapter takes as "already exists", so the
\* adapter never returns from its loop over the attribute types with an
\* error and a second run of the setup goes on to the entities
C37_RerunnableSetup ==
    ~(adapter.pc = "returned_err" /\ adapter.at = "attribute_types")

----------------------------------------------------------------------------
(* The MAVLink network (ardupilot/connection.rs): one broadcast channel of *)
(* RoutableFrames, one Network::process task per TCP connection, and the   *)
(* local Client.  tx holds every frame sent, in order; a receiver is the   *)
(* number of frames it has taken or passed.                                *)

\* the most frames read from the sockets in a behaviour
MaxFrames == 3

\* the capacity the channel was created with (create_with_capacity)
NetworkCapacity == 2

\* NodeId of the local client, of the vehicle, and of a third node
ClientNode == "gcs"
VehicleNode == "vehicle"
OtherNode == "other"

\* frames: the sender's node id, the message id, and the fields the code
\* reads (the target node, seq, count)
Frame(node, id, target, seq, count) ==
    [node |-> node, id |-> id, target |-> target, seq |-> seq, count |-> count]
Heartbeat(node) == Frame(node, "HEARTBEAT", "", 0, 0)
MissionRequestList(node, target) ==
    Frame(node, "MISSION_REQUEST_LIST", target, 0, 0)
MissionRequestInt(node, target, seq) ==
    Frame(node, "MISSION_REQUEST_INT", target, seq, 0)
MissionCount(node, target, count) ==
    Frame(node, "MISSION_COUNT", target, 0, count)
MissionItemInt(node, target, seq) ==
    Frame(node, "MISSION_ITEM_INT", target, seq, 0)
MissionAck(node, target) == Frame(node, "MISSION_ACK", target, 0, 0)

\* enum MavlinkDestination
All == [kind |-> "All", id |-> ""]
NotConnectionId(c) == [kind |-> "NotConnectionId", id |-> c]
OnlyConnectionId(c) == [kind |-> "OnlyConnectionId", id |-> c]

\* struct RoutableFrame
RoutableFrame(frame, origin, destination) ==
    [frame |-> frame, origin |-> origin, destination |-> destination]

\* a receiver whose next frame the channel no longer holds: recv gives
\* Err(Lagged)
Lags(rx) == Len(tx) - rx > NetworkCapacity

\* (WritesToAll: the match on the destination is left out)
WritesToAll(destination, connection_id) == TRUE

\* the match on routable_frame.destination in process: TRUE when the frame
\* goes on to framed_writer.send, FALSE on `continue`
Writes(destination, connection_id) ==
    CASE destination.kind = "All" -> TRUE
      [] destination.kind = "NotConnectionId" -> destination.id # connection_id
      [] destination.kind = "OnlyConnectionId" -> destination.id = connection_id

\* (subscribe_late: the receiver exists only once the next frame has gone
\*  by)
subscribe_late == Len(tx) + 1

\* tx.subscribe(): the new receiver gets the frames sent from now on
subscribe == Len(tx)

\* accept_loop spawns process_tcp for an accepted socket; process subscribes
Process(c) ==
    /\ conn[c].state = "closed"
    /\ conn' = [conn EXCEPT ![c] = [state |-> "processing", sub |-> subscribe,
                                    rx |-> subscribe, written |-> <<>>,
                                    why |-> ""]]
    /\ UNCHANGED <<storeVars, watchVars, boundaryVars, adapterVars, tx, client>>

\* select arm framed_reader.next() with Some(Ok(frame)): the frame is sent
\* with this connection as origin and as the one connection not to write to
ProcessSocketFrame(c, frame) ==
    /\ conn[c].state = "processing"
    /\ Cardinality({i \in 1..Len(tx) : tx[i].origin # "Local"}) < MaxFrames
    /\ tx' = Append(tx, RoutableFrame(frame, c, NotConnectionId(c)))
    /\ UNCHANGED <<storeVars, watchVars, boundaryVars, adapterVars, conn, client>>

\* select arm framed_reader.next() with None: return Ok(())
ProcessSocketEnd(c) ==
    /\ conn[c].state = "processing"
    /\ conn' = [conn EXCEPT ![c].state = "returned_ok", ![c].why = "disconnected"]
    /\ UNCHANGED <<storeVars, watchVars, boundaryVars, adapterVars, tx, client>>

\* select arm framed_reader.next() with Some(Err(_)): `frame_result?`
ProcessSocketError(c) ==
    /\ conn[c].state = "processing"
    /\ conn' = [conn EXCEPT ![c].state = "returned_err", ![c].why = "read"]
    /\ UNCHANGED <<storeVars, watchVars, boundaryVars, adapterVars, tx, client>>

\* select arm channel_rx.recv(): Err ends the task with Ok(()); a frame is
\* passed over or written to the socket; a failed write ends the task with
\* the error
ProcessChannelRecv(c, write_ok) ==
    /\ conn[c].state = "processing"
    /\ \/ /\ Lags(conn[c].rx)
          /\ write_ok
          /\ conn' = [conn EXCEPT ![c].state = "returned_ok",
                                  ![c].why = "recv"]
       \/ /\ ~Lags(conn[c].rx)
          /\ conn[c].rx < Len(tx)
          /\ LET routable_frame == tx[conn[c].rx + 1] IN
             IF ~Writes(routable_frame.destination, c)
             THEN /\ write_ok
                  /\ conn' = [conn EXCEPT ![c].rx = @ + 1]
             ELSE IF write_ok
             THEN conn' = [conn EXCEPT
                             ![c].rx = @ + 1,
                             ![c].written = Append(@, routable_frame.frame)]
             ELSE conn' = [conn EXCEPT ![c].state = "returned_err",
                                       ![c].why = "write"]
    /\ UNCHANGED <<storeVars, watchVars, boundaryVars, adapterVars, tx, client>>

\* send_and_await_response_with_extractor up to tx.send: the client
\* subscribes, then sends its request from Local to All
ClientSubscribe ==
    /\ client.pc = "start"
    /\ client' = [client EXCEPT !.pc = "subscribed", !.sub = subscribe,
                                !.rx = subscribe]
    /\ UNCHANGED <<storeVars, watchVars, boundaryVars, adapterVars, tx, conn>>

\* (RequestFirstItem: every request for an item asks for seq 0)
RequestFirstItem ==
    IF client.call = "request_list"
    THEN MissionRequestList(ClientNode, VehicleNode)
    ELSE MissionRequestInt(ClientNode, VehicleNode, 0)

\* the request of the call the client is in
Request ==
    IF client.call = "request_list"
    THEN MissionRequestList(ClientNode, VehicleNode)
    ELSE MissionRequestInt(ClientNode, VehicleNode, client.idx)

ClientSend ==
    /\ client.pc = "subscribed"
    /\ tx' = Append(tx, RoutableFrame(Request, "Local", All))
    /\ client' = [client EXCEPT !.pc = "awaiting"]
    /\ UNCHANGED <<storeVars, watchVars, boundaryVars, adapterVars, conn>>

\* fetch_mission is called: its first call is request_list
FetchMission ==
    /\ client.pc = "idle"
    /\ client' = [client EXCEPT !.pc = "start", !.call = "request_list"]
    /\ UNCHANGED <<storeVars, watchVars, boundaryVars, adapterVars, tx, conn>>

\* the frames the sockets deliver while frames are routed
RoutedFrames == {Heartbeat(VehicleNode)}

RoutingNext ==
    \/ \E c \in Connections : Process(c)
    \/ \E c \in Connections, frame \in RoutedFrames : ProcessSocketFrame(c, frame)
    \/ \E c \in Connections : ProcessSocketEnd(c)
    \/ \E c \in Connections : ProcessSocketError(c)
    \/ \E c \in Connections, write_ok \in BOOLEAN : ProcessChannelRecv(c, write_ok)
    \/ FetchMission
    \/ ClientSubscribe
    \/ ClientSend

RoutingSpec == Init /\ [][RoutingNext]_vars

\* the frames among `frames` that did not come from connection d, in order
RECURSIVE FramesNotFrom(_, _)
FramesNotFrom(d, frames) ==
    IF Len(frames) = 0 THEN <<>>
    ELSE IF frames[1].origin = d THEN FramesNotFrom(d, Tail(frames))
    ELSE <<frames[1].frame>> \o FramesNotFrom(d, Tail(frames))

\* every frame read from a connection is sent on as not for that connection,
\* every frame of the local client as for all
C38_Destinations ==
    \A i \in 1..Len(tx) :
        /\ tx[i].origin \in Connections =>
              tx[i].destination = NotConnectionId(tx[i].origin)
        /\ tx[i].origin = "Local" => tx[i].destination = All

\* what a connection has written is exactly, and in order, the frames it has
\* received since it subscribed that came from another connection or from
\* the local client
C38_Written ==
    \A d \in Connections :
        conn[d].written =
            FramesNotFrom(d, SubSeq(tx, conn[d].sub + 1, conn[d].rx))

\* a task that returned Ok(()) did so on the end of its socket's stream or on
\* a failed receive, and a receive fails only for a receiver that has lagged;
\* a task that returned an error did so on a read or a write of its socket
C38_Ends ==
    \A c \in Connections :
        /\ conn[c].state = "returned_ok" => conn[c].why \in {"disconnected", "recv"}
        /\ conn[c].why = "recv" =>
              conn[c].state = "returned_ok" /\ Lags(conn[c].rx)
        /\ conn[c].why = "disconnected" => conn[c].state = "returned_ok"
        /\ conn[c].state = "returned_err" => conn[c].why \in {"read", "write"}

\* C38: a frame read from TCP connection c is published with destination
\* NotConnectionId(c), is written to every other connection that is being
\* processed and receives it, and is never written back to c; a frame of the
\* local client (destination All) is written to every connection; a
\* connection's task ends normally when its socket reaches the end of its
\* stream or its broadcast receive fails
C38_FrameRouting ==
    /\ C38_Destinations
    /\ C38_Written
    /\ C38_Ends

\* both connections were being processed when c1 read a frame and the local
\* client sent one: c2 has written both, c1 only the client's
C38_Witness ==
    /\ \E i, j \in 1..Len(tx) : tx[i].origin = "c1" /\ tx[j].origin = "Local"
    /\ \A i \in 1..Len(tx) : tx[i].origin # "c2"
    /\ Len(tx) = 2
    /\ \A c \in Connections :
          conn[c].state = "processing" /\ conn[c].sub = 0 /\ conn[c].rx = 2
    /\ Len(conn["c2"].written) = 2
    /\ conn["c1"].written = <<MissionRequestList(ClientNode, VehicleNode)>>

----------------------------------------------------------------------------
(* The mission download (ardupilot/mission.rs) over the local Client.      *)

\* extract_mission_ack: a MissionAck addressed to this node is Some(Err(_))
extract_mission_ack(node_id, frame) ==
    IF frame.id = "MISSION_ACK" /\ frame.target = node_id
    THEN <<[ok |-> FALSE, message |-> frame]>>
    ELSE <<>>

\* the response_extractor of request_list and of request_int: the ack first,
\* or else the awaited message when it is addressed to this node
response_extractor(call, node_id, frame) ==
    IF extract_mission_ack(node_id, frame) # <<>>
    THEN extract_mission_ack(node_id, frame)
    ELSE IF /\ frame.id = (IF call = "request_list" THEN "MISSION_COUNT"
                           ELSE "MISSION_ITEM_INT")
            /\ frame.target = node_id
    THEN <<[ok |-> TRUE, message |-> frame]>>
    ELSE <<>>

\* what fetch_mission pushes: the item with the target rewritten
PushedItem(mission_item) == [mission_item EXCEPT !.target = VehicleNode]

\* the loop around rx.recv() in send_and_await_response_with_extractor, one
\* turn, and what fetch_mission does with a response: a lagged receiver ends
\* the call with the error; a frame the extractor refuses is passed over; an
\* ack ends fetch_mission with an error; a count starts the requests for the
\* items; an item is pushed and the next one requested
ClientRecv ==
    /\ client.pc = "awaiting"
    /\ \/ /\ Lags(client.rx)
          /\ client' = [client EXCEPT !.pc = "failed", !.result = "RecvError"]
       \/ /\ ~Lags(client.rx)
          /\ client.rx < Len(tx)
          /\ LET frame == tx[client.rx + 1].frame
                 response == response_extractor(client.call, ClientNode, frame)
             IN  IF response = <<>>
                 THEN client' = [client EXCEPT !.rx = @ + 1]
                 ELSE IF ~response[1].ok
                 THEN client' = [client EXCEPT !.rx = @ + 1, !.pc = "failed",
                                               !.result = "MissionAck"]
                 ELSE IF client.call = "request_list"
                 THEN client' = [client EXCEPT
                                   !.rx = @ + 1,
                                   !.count = frame.count,
                                   !.idx = 0,
                                   !.call = "request_int",
                                   !.pc = IF frame.count = 0 THEN "done"
                                          ELSE "start"]
                 ELSE client' = [client EXCEPT
                                   !.rx = @ + 1,
                                   !.items = Append(@, PushedItem(frame)),
                                   !.idx = @ + 1,
                                   !.pc = IF client.idx + 1 = client.count
                                          THEN "done" ELSE "start"]
    /\ UNCHANGED <<storeVars, watchVars, boundaryVars, adapterVars, tx, conn>>

\* the frames that come in from the vehicle's link while a download runs
VehicleFrames ==
    { MissionCount(VehicleNode, ClientNode, 0),
      MissionCount(VehicleNode, ClientNode, 2),
      MissionItemInt(VehicleNode, ClientNode, 0),
      MissionItemInt(VehicleNode, ClientNode, 1),
      MissionAck(VehicleNode, ClientNode),
      MissionAck(VehicleNode, OtherNode) }

MissionNext ==
    \/ Process("c1")
    \/ \E frame \in VehicleFrames :
          /\ client.pc \in {"start", "subscribed", "awaiting"}
          /\ ProcessSocketFrame("c1", frame)
    \/ FetchMission
    \/ ClientSubscribe
    \/ ClientSend
    \/ ClientRecv

MissionSpec == Init /\ [][MissionNext]_vars

\* the frames the local client has sent, in order
RECURSIVE LocalFrames(_)
LocalFrames(frames) ==
    IF Len(frames) = 0 THEN <<>>
    ELSE IF frames[1].origin = "Local"
    THEN <<frames[1].frame>> \o LocalFrames(Tail(frames))
    ELSE LocalFrames(Tail(frames))

\* the responses fetch_mission has taken: the count, then the items
Answered == (IF client.call = "request_int" THEN 1 ELSE 0) + Len(client.items)

C39_Requests ==
    LET sent == LocalFrames(tx) IN
    /\ \A k \in 1..Len(sent) :
          sent[k] = IF k = 1 THEN MissionRequestList(ClientNode, VehicleNode)
                    ELSE MissionRequestInt(ClientNode, VehicleNode, k - 2)
    /\ Len(sent) - Answered \in {0, 1}
    /\ client.call = "request_int" => Len(sent) <= 1 + client.count
    /\ client.pc = "done" =>
          /\ Len(sent) = 1 + client.count
          /\ Len(client.items) = client.count
    /\ client.result = "MissionAck" => client.pc = "failed"

C39_Step ==
    LET sent == LocalFrames(tx) IN
    \* an item is pushed as the answer to the request for its place
    /\ client'.items # client.items =>
          /\ client.pc = "awaiting"
          /\ sent[Len(sent)] =
                MissionRequestInt(ClientNode, VehicleNode, Len(client.items))
          /\ client.rx < Len(tx)
          /\ tx[client.rx + 1].frame.id = "MISSION_ITEM_INT"
          /\ tx[client.rx + 1].frame.target = ClientNode
          /\ client'.items =
                Append(client.items, PushedItem(tx[client.rx + 1].frame))
    \* an ack addressed to the client ends the download with an error
    /\ ( /\ client.pc = "awaiting"
         /\ ~Lags(client.rx)
         /\ client.rx < Len(tx)
         /\ tx[client.rx + 1].frame.id = "MISSION_ACK"
         /\ tx[client.rx + 1].frame.target = ClientNode
         /\ client' # client )
       => client'.pc = "failed" /\ client'.result = "MissionAck"
                                /\ client'.items = client.items
    \* after the error nothing more is requested
    /\ client.pc = "failed" =>
          client' = client /\ LocalFrames(tx') = sent

Accepted(i) == response_extractor(client.call, ClientNode, tx[i].frame) # <<>>

\* while the call waits: its request was sent after it subscribed, and every
\* frame its receiver has gone past since then was one the extractor refuses,
\* so a response sent after the request is still ahead of the receiver
C40_Waiting ==
    client.pc = "awaiting" =>
        /\ \E i \in (client.sub + 1)..Len(tx) :
              tx[i] = RoutableFrame(Request, "Local", All)
        /\ client.rx <= Len(tx)
        /\ \A j \in (client.sub + 1)..client.rx : ~Accepted(j)

C40_Step ==
    \* the call returns a response: it is the first frame after the
    \* subscription, in the order of the broadcast, that the extractor takes
    /\ (client.pc = "awaiting" /\ client'.pc # "awaiting"
                               /\ client'.result # "RecvError") =>
          /\ \E i \in (client.sub + 1)..Len(tx) : Accepted(i)
          /\ LET first == CHOOSE i \in (client.sub + 1)..Len(tx) :
                             /\ Accepted(i)
                             /\ \A j \in (client.sub + 1)..(i - 1) : ~Accepted(j)
                 frame == tx[first].frame
             IN  /\ client'.rx = first
                 /\ frame.id = "MISSION_ACK" => client'.result = "MissionAck"
                 /\ frame.id = "MISSION_COUNT" => client'.count = frame.count
                 /\ frame.id = "MISSION_ITEM_INT" =>
                       client'.items = Append(client.items, PushedItem(frame))
    \* it returns the error of recv exactly when its receiver has lagged
    /\ (client.pc = "awaiting" /\ client'.result = "RecvError") =>
          Lags(client.rx) /\ client'.pc = "failed"
    /\ (client.pc = "awaiting" /\ Lags(client.rx) /\ client' # client) =>
          client'.result = "RecvError"
    \* with no such frame and no lag it goes on waiting
    /\ ( /\ client.pc = "awaiting"
         /\ ~Lags(client.rx)
         /\ \A i \in (client.sub + 1)..Len(tx) : ~Accepted(i) )
       => client'.pc = "awaiting"

\* C40: send_and_await_response_with_extractor subscribes before it sends its
\* request, so a matching response sent after the request is never missed;
\* it returns the first frame after the subscription that the extractor
\* takes, returns an error when its receiver lags, and otherwise does not
\* return while no matching frame has arrived
C40_RequestResponse == []C40_Waiting /\ [][C40_Step]_vars

\* the call for the count has returned after its receiver went past its own
\* request and an ack for another node, and took the count that came third
C40_Witness ==
    /\ client.pc = "start"
    /\ client.call = "request_int"
    /\ client.count = 2
    /\ client.rx = client.sub + 3
    /\ tx[client.sub + 1].origin = "Local"
    /\ tx[client.sub + 2].frame = MissionAck(VehicleNode, OtherNode)
    /\ tx[client.sub + 3].frame = MissionCount(VehicleNode, ClientNode, 2)

====
